---- MODULE Spec2Model ----
(***************************************************************************)
(* A model of libflic: the FLI/FLC chunk codecs, the container writer      *)
(* (FlicFileWriter) and the container reader (FlicFile).                   *)
(*                                                                         *)
(* Byte streams are sequences of naturals in 0..255.  A writer with seek   *)
(* is a record [buf, pos]; an encoder is modelled by the bytes it leaves   *)
(* between the position it started at and the position it stops at, which  *)
(* is what its seek-and-backpatch code produces.  Offsets are zero-based   *)
(* as in the source; Slice and At convert to the one-based sequences.      *)
(***************************************************************************)
EXTENDS Integers, Sequences, FiniteSets, TLC

VARIABLES
    pc,         \* position of the scenario being run
    wr,         \* the FlicFileWriter and the file it writes
    wres,       \* what the last writer call returned
    hist,       \* the arguments of the writer calls made so far
    rd,         \* the FlicFile (header, frame table, cursor)
    dst,        \* the caller's RasterMut handed to read_next_frame
    rres,       \* what the last read_next_frame call returned
    calls,      \* one record per successful read_next_frame call
    argPrev,    \* codec scenarios: the prev raster (or None)
    argNext,    \* codec scenarios: the next raster
    out         \* codec scenarios: the result of the function under test

vars == <<pc, wr, wres, hist, rd, dst, rres, calls, argPrev, argNext, out>>

(***************************************************************************)
(* Bounds of the model.                                                    *)
(***************************************************************************)
\* widest row of the LC codec scenario
LcW == 6
\* number of rows of the LC codec scenario
LcH == 2

\* the pixel values the scenarios draw from
Pix == {0, 1, 2}

None == [none |-> TRUE]

(***************************************************************************)
(* Bytes and slices.                                                       *)
(***************************************************************************)
Min(a, b) == IF a < b THEN a ELSE b

Max(a, b) == IF a > b THEN a ELSE b

\* s[a..b) with zero-based offsets
Slice(s, a, b) == SubSeq(s, a + 1, b)

\* s[i] with a zero-based offset
At(s, i) == s[i + 1]

Fill(n, v) == [i \in 1..n |-> v]

\* `let x = v;` followed by the code F that uses x: v is computed once
Let(v, F(_)) == F(v)

\* byteorder write_u16::<LE>
le16(n) == <<n % 256, (n \div 256) % 256>>

\* byteorder write_u32::<LE>
le32(n) == <<n % 256, (n \div 256) % 256, (n \div 65536) % 256, (n \div 16777216) % 256>>

\* byteorder read_u16::<LE> at offset i
rd16(s, i) == At(s, i) + 256 * At(s, i + 1)

\* byteorder read_u32::<LE> at offset i
rd32(s, i) == At(s, i) + 256 * At(s, i + 1) + 65536 * At(s, i + 2) + 16777216 * At(s, i + 3)

\* read_i8: the byte as a two's complement number
i8(b) == IF b >= 128 THEN b - 256 ELSE b

\* write_i8 / `as i8` / `as u8`: the number truncated to one byte
u8(n) == n % 256

U8_MAX == 255

U16_MAX == 65535

\* the number of bytes of a palette, 3 * 256
PAL_LEN == 768

(***************************************************************************)
(* Raster views (lib.rs, raster.rs).                                       *)
(***************************************************************************)
\* the assertions of Raster::with_offset
RasterValid(r) ==
    /\ r.x < r.x + r.w
    /\ r.x + r.w <= r.stride
    /\ r.h > 0
    /\ r.stride * (r.y + r.h) <= Len(r.buf)
    /\ Len(r.pal) = PAL_LEN

Raster_with_offset(x, y, w, h, stride, buf, pal) ==
    [x |-> x, y |-> y, w |-> w, h |-> h, stride |-> stride, buf |-> buf, pal |-> pal]

Raster_new(w, h, buf, pal) == Raster_with_offset(0, 0, w, h, w, buf, pal)

\* row j of the buffer: the j-th chunk of buf.chunks(stride)
BufRow(r, j) == Slice(r.buf, r.stride * j, r.stride * (j + 1))

\* &row[x..(x + w)] of buffer row j
VisRow(r, j) == Slice(BufRow(r, j), r.x, r.x + r.w)

\* the visible pixels, row by row from the top
VisPixels(r) == [k \in 1..r.h |-> VisRow(r, r.y + k - 1)]

(***************************************************************************)
(* Grouping iterators (codec/mod.rs).                                      *)
(***************************************************************************)
Same(start, n) == [same |-> TRUE, start |-> start, n |-> n]

Diff(start, n) == [same |-> FALSE, start |-> start, n |-> n]

\* the first offset e >= i at which Go(e) fails, stepping by step
FirstStop(i, len, step, Go(_)) ==
    CHOOSE e \in {i + step * k : k \in 0..((len - i) \div step + 1)} :
        /\ ~Go(e)
        /\ \A k \in 0..((len - i) \div step + 1) : i + step * k < e => Go(i + step * k)

\* while (i < len) && (old[i] == new[i]) { i = i + 1 }
SameRunEnd(old, new, i) ==
    LET Go(j) == j < Len(new) /\ At(old, j) = At(new, j)
    IN  FirstStop(i, Len(new), 1, Go)

\* while (i < len) && (old[i] != new[i]) && (new[i] == c) { i = i + 1 }
LcDiffEnd(old, new, i, c) ==
    LET Go(j) == j < Len(new) /\ At(old, j) # At(new, j) /\ At(new, j) = c
    IN  FirstStop(i, Len(new), 1, Go)

\* while i + 1 < len { if (differs) && (same word) { i = i + 2 } else { break } }
Ss2DiffEnd(old, new, i, c0, c1) ==
    LET Go(j) == /\ j + 1 < Len(new)
                 /\ (At(old, j) # At(new, j) \/ At(old, j + 1) # At(new, j + 1))
                 /\ At(new, j) = c0 /\ At(new, j + 1) = c1
    IN  FirstStop(i, Len(new), 2, Go)

\* the iterator state of GroupByRuns over old and new
GroupByRuns_new(lc) ==
    [idx |-> 0, prepend_same_run |-> FALSE, ignore_final_same_run |-> FALSE, group_by_lc |-> lc]

\* GroupByRuns::next: [some, g, it]
GroupByRuns_next(old, new, it) ==
    LET len == Len(new)
        i == it.idx
    IN  IF i >= len THEN [some |-> FALSE, g |-> Same(i, 0), it |-> it]
        ELSE IF At(old, i) = At(new, i) \/ it.prepend_same_run
        THEN LET e == SameRunEnd(old, new, i)
                 it2 == [it EXCEPT !.idx = e, !.prepend_same_run = FALSE]
             IN  IF e >= len /\ it.ignore_final_same_run
                 THEN [some |-> FALSE, g |-> Same(i, e - i), it |-> it2]
                 ELSE [some |-> TRUE, g |-> Same(i, e - i), it |-> it2]
        ELSE IF it.group_by_lc
        THEN LET e == LcDiffEnd(old, new, i, At(new, i))
             IN  [some |-> TRUE, g |-> Diff(i, e - i), it |-> [it EXCEPT !.idx = e]]
        ELSE IF i + 1 >= len
        THEN [some |-> TRUE, g |-> Diff(i, 1), it |-> [it EXCEPT !.idx = i + 1]]
        ELSE LET e == Ss2DiffEnd(old, new, i, At(new, i), At(new, i + 1))
             IN  [some |-> TRUE, g |-> Diff(i, e - i), it |-> [it EXCEPT !.idx = e]]

(***************************************************************************)
(* FLI_LC (codec/codec012.rs).                                             *)
(***************************************************************************)
FLI_LC == 12

Op(kind, idx, len) == [op |-> kind, idx |-> idx, len |-> len]

\* combine_packets of codec012: [some, op]
lc_combine_packets(s0, s1) ==
    IF s0.op = "Skip" /\ s1.same THEN [some |-> TRUE, op |-> Op("Skip", 0, s0.len + s1.n)]
    ELSE IF s0.op = "Skip" THEN [some |-> FALSE, op |-> s0]
    ELSE IF s0.op = "Memset" /\ s1.same
    THEN [some |-> s0.len + s1.n < 3, op |-> Op("Memcpy", s0.idx, s0.len + s1.n)]
    ELSE IF s0.op = "Memset"
    THEN [some |-> s0.len + s1.n <= 4, op |-> Op("Memcpy", s0.idx, s0.len + s1.n)]
    ELSE IF s1.same
    THEN [some |-> s1.n < 2, op |-> Op("Memcpy", s0.idx, s0.len + s1.n)]
    ELSE [some |-> s1.n < 5, op |-> Op("Memcpy", s0.idx, s0.len + s1.n)]

\* convert_packet of codec012
lc_convert_packet(g) ==
    IF g.same THEN Op("Skip", 0, g.n) ELSE Op("Memset", g.start, g.n)

\* write_packet of codec012: [count, bytes]
RECURSIVE lc_write_packet(_, _, _)
lc_write_packet(op, count, buf) ==
    IF op.op = "Skip"
    THEN IF op.len > U8_MAX
         THEN LET rest == lc_write_packet(Op("Skip", 0, op.len - U8_MAX), count + 2, buf)
              IN  [count |-> rest.count, bytes |-> <<U8_MAX, 0>> \o rest.bytes]
         ELSE [count |-> count + 1, bytes |-> <<u8(op.len)>>]
    ELSE IF op.op = "Memset"
    THEN IF op.len > 128
         THEN LET rest == lc_write_packet(Op("Memset", op.idx, op.len - 128), count + 2, buf)
              IN  [count |-> rest.count,
                   bytes |-> <<u8(128), At(buf, op.idx), 0>> \o rest.bytes]
         ELSE [count |-> count + 1, bytes |-> <<u8(256 - op.len), At(buf, op.idx)>>]
    ELSE IF op.len > 127
         THEN LET rest == lc_write_packet(Op("Memcpy", op.idx + 127, op.len - 127), count + 2, buf)
              IN  [count |-> rest.count,
                   bytes |-> <<127>> \o Slice(buf, op.idx, op.idx + 127) \o <<0>> \o rest.bytes]
         ELSE [count |-> count + 1,
               bytes |-> <<u8(op.len)>> \o Slice(buf, op.idx, op.idx + op.len)]

\* the loop over the groups of one row: [err, state, count, bytes]
RECURSIVE lc_row_groups(_, _, _, _, _, _)
lc_row_groups(p, n, it, state, count, bytes) ==
    Let(GroupByRuns_next(p, n, it), LAMBDA nx :
    Let(lc_combine_packets(state, nx.g), LAMBDA c :
        IF ~nx.some THEN [err |-> FALSE, state |-> state, count |-> count, bytes |-> bytes]
        ELSE IF c.some THEN lc_row_groups(p, n, nx.it, c.op, count, bytes)
        ELSE Let(lc_convert_packet(nx.g), LAMBDA new_state :
             Let(lc_write_packet(state, count, n), LAMBDA w1 :
             Let(IF state.op # "Skip" /\ new_state.op # "Skip"
                 THEN lc_write_packet(Op("Skip", 0, 0), w1.count, n)
                 ELSE [count |-> w1.count, bytes |-> <<>>], LAMBDA w2 :
             Let(bytes \o w1.bytes \o w2.bytes, LAMBDA b2 :
                 IF w2.count > 2 * U8_MAX
                 THEN [err |-> TRUE, state |-> new_state, count |-> w2.count, bytes |-> b2]
                 ELSE lc_row_groups(p, n, nx.it, new_state, w2.count, b2)))))))

\* one row of encode_fli_lc: the count byte and the packets: [err, count, bytes]
lc_encode_row(p, n) ==
    Let([GroupByRuns_new(TRUE) EXCEPT !.prepend_same_run = TRUE,
                                      !.ignore_final_same_run = TRUE], LAMBDA it0 :
    Let(lc_row_groups(p, n, it0, Op("Skip", 0, 0), 0, <<>>), LAMBDA gs :
    Let(IF gs.err \/ gs.state.op = "Skip"
        THEN [count |-> gs.count, bytes |-> <<>>]
        ELSE lc_write_packet(gs.state, gs.count, n), LAMBDA fin :
    Let(gs.bytes \o fin.bytes, LAMBDA body :
        IF gs.err \/ fin.count > 2 * U8_MAX
        THEN [err |-> TRUE, count |-> fin.count, bytes |-> <<0>> \o body]
        ELSE [err |-> FALSE, count |-> fin.count,
              bytes |-> <<u8(fin.count \div 2)>> \o body]))))

\* the number of leading rows k in 0..h-1 whose visible pixels are equal
RECURSIVE lc_same_rows_top(_, _, _)
lc_same_rows_top(prev, next, k) ==
    IF k < next.h /\ VisRow(prev, prev.y + k) = VisRow(next, next.y + k)
    THEN lc_same_rows_top(prev, next, k + 1) ELSE k

\* the number of trailing rows whose visible pixels are equal
RECURSIVE lc_same_rows_bottom(_, _, _)
lc_same_rows_bottom(prev, next, k) ==
    IF k < next.h /\ VisRow(prev, prev.y + prev.h - 1 - k) = VisRow(next, next.y + next.h - 1 - k)
    THEN lc_same_rows_bottom(prev, next, k + 1) ELSE k

\* the first buffer row the row loop of encode_fli_lc reads: prev.stride * y0
lc_first_row(r, y0) == y0

\* the row loop of encode_fli_lc over rows j..y1-1: [res, bytes]
RECURSIVE lc_encode_rows(_, _, _, _, _, _)
lc_encode_rows(prev, next, j, y1, y0, bytes) ==
    IF j >= y1 THEN [res |-> "Ok", bytes |-> bytes]
    ELSE Let(lc_encode_row(VisRow(prev, lc_first_row(prev, y0) + (j - y0)),
                           VisRow(next, lc_first_row(next, y0) + (j - y0))), LAMBDA row :
         Let(bytes \o row.bytes, LAMBDA b2 :
             IF row.err \/ Len(b2) > next.w * next.h
             THEN [res |-> "ExceededLimit", bytes |-> b2]
             ELSE lc_encode_rows(prev, next, j + 1, y1, y0, b2)))

\* an encoder tail that leaves the length as it is
PadNone(bytes) == bytes

\* pad to an even length
PadEven(bytes) == IF Len(bytes) % 2 = 1 THEN bytes \o <<0>> ELSE bytes

\* encode_fli_lc: [res, size, bytes]
encode_fli_lc(prev, next) ==
    IF prev.w # next.w \/ prev.h # next.h
    THEN [res |-> "WrongResolution", size |-> 0, bytes |-> <<>>]
    ELSE Let(lc_same_rows_top(prev, next, 0), LAMBDA y0 :
         Let(next.h - lc_same_rows_bottom(prev, next, 0), LAMBDA y1 :
             IF y0 >= next.h \/ y1 <= y0 THEN [res |-> "Ok", size |-> 0, bytes |-> <<>>]
             ELSE IF y0 > U16_MAX \/ y1 - y0 > U16_MAX
             THEN [res |-> "ExceededLimit", size |-> 0, bytes |-> <<>>]
             ELSE Let(lc_encode_rows(prev, next, y0, y1, y0, le16(y0) \o le16(y1 - y0)),
                      LAMBDA rows :
                  IF rows.res # "Ok" THEN [res |-> rows.res, size |-> 0, bytes |-> rows.bytes]
                  ELSE Let(PadEven(rows.bytes), LAMBDA padded :
                       [res |-> "Ok", size |-> Len(padded), bytes |-> padded]))))

\* buf with buf[a..a+Len(data)) replaced by data
Patch(buf, a, data) ==
    SubSeq(buf, 1, a) \o data \o SubSeq(buf, a + Len(data) + 1, Len(buf))

\* the packets of one row of decode_fli_lc: [res, buf, r, packets]
RECURSIVE lc_decode_packets(_, _, _, _, _, _, _)
lc_decode_packets(src, r, buf, row0, rowlen, x0, count) ==
    IF count = 0 THEN [res |-> "Ok", buf |-> buf, r |-> r]
    ELSE IF r + 2 > Len(src) THEN [res |-> "Io", buf |-> buf, r |-> r]
    ELSE LET nskip == At(src, r)
             signed_length == i8(At(src, r + 1))
             len == IF signed_length >= 0 THEN signed_length ELSE -signed_length
             start == x0 + nskip
             end == start + len
         IN  IF end > rowlen THEN [res |-> "Corrupted", buf |-> buf, r |-> r + 2]
             ELSE IF signed_length >= 0
             THEN IF r + 2 + len > Len(src) THEN [res |-> "Io", buf |-> buf, r |-> r + 2]
                  ELSE lc_decode_packets(src, r + 2 + len,
                            Patch(buf, row0 + start, Slice(src, r + 2, r + 2 + len)),
                            row0, rowlen, end, count - 1)
             ELSE IF r + 3 > Len(src) THEN [res |-> "Io", buf |-> buf, r |-> r + 2]
                  ELSE lc_decode_packets(src, r + 3,
                            Patch(buf, row0 + start, Fill(len, At(src, r + 2))),
                            row0, rowlen, end, count - 1)

\* the rows of decode_fli_lc
RECURSIVE lc_decode_rows(_, _, _, _, _, _)
lc_decode_rows(src, r, d, buf, j, end) ==
    IF j >= end THEN [res |-> "Ok", buf |-> buf, r |-> r]
    ELSE IF r + 1 > Len(src) THEN [res |-> "Io", buf |-> buf, r |-> r]
    ELSE Let(lc_decode_packets(src, r + 1, buf, d.stride * j, d.stride, d.x, At(src, r)),
             LAMBDA row :
             IF row.res # "Ok" THEN row
             ELSE lc_decode_rows(src, row.r, d, row.buf, j + 1, end))

\* decode_fli_lc: [res, buf]; "Panic" is a slice index out of range
decode_fli_lc(src, d) ==
    IF Len(src) < 4 THEN [res |-> "Io", buf |-> d.buf]
    ELSE LET y0 == rd16(src, 0)
             hh == rd16(src, 2)
         IN  IF d.stride * (d.y + y0 + hh) > Len(d.buf) THEN [res |-> "Panic", buf |-> d.buf]
             ELSE Let(lc_decode_rows(src, 4, d, d.buf, d.y + y0, d.y + y0 + hh), LAMBDA rows :
                  [res |-> rows.res, buf |-> rows.buf])

(***************************************************************************)
(* FLI_BLACK (codec/codec013.rs).                                          *)
(***************************************************************************)
FLI_BLACK == 13

\* the columns of a row that can_encode_fli_black inspects: row.iter()
black_row_cols(next) == 0..(next.stride - 1)

\* can_encode_fli_black
can_encode_fli_black(next) ==
    \A j \in next.y..(next.y + next.h - 1) :
        \A c \in black_row_cols(next) : At(BufRow(next, j), c) = 0

\* is offset i (zero-based) of the buffer inside the visible rectangle
InView(d, i) ==
    /\ i \div d.stride >= d.y
    /\ i \div d.stride < d.y + d.h
    /\ i % d.stride >= d.x
    /\ i % d.stride < d.x + d.w

\* decode_fli_black: the new buffer
decode_fli_black(d) ==
    [i \in 1..Len(d.buf) |-> IF InView(d, i - 1) THEN 0 ELSE d.buf[i]]

(***************************************************************************)
(* FLI_COPY (codec/codec016.rs).                                           *)
(***************************************************************************)
FLI_COPY == 16

RECURSIVE copy_rows(_, _)
copy_rows(next, k) ==
    IF k >= next.h THEN <<>> ELSE VisRow(next, next.y + k) \o copy_rows(next, k + 1)

\* the number of bytes encode_fli_copy reports
copy_size(next) == next.w * next.h

\* a COPY encoder that pads to an even length
encode_fli_copy_padded(next) ==
    [res |-> "Ok", size |-> copy_size(next) + (copy_size(next) % 2),
     bytes |-> copy_rows(next, 0) \o Fill(copy_size(next) % 2, 0)]

\* encode_fli_copy: [res, size, bytes]
encode_fli_copy(next) ==
    [res |-> "Ok", size |-> copy_size(next), bytes |-> copy_rows(next, 0)]

\* decode_fli_copy: [res, buf]
decode_fli_copy(src, d) ==
    IF d.w <= 0 \/ Len(src) % d.w # 0 THEN [res |-> "WrongResolution", buf |-> d.buf]
    ELSE LET nrows == Min(Len(src) \div d.w, d.h)
         IN  [res |-> "Ok",
              buf |-> [i \in 1..Len(d.buf) |->
                        IF InView(d, i - 1) /\ ((i - 1) \div d.stride) - d.y < nrows
                        THEN At(src, (((i - 1) \div d.stride) - d.y) * d.w
                                        + (((i - 1) % d.stride) - d.x))
                        ELSE d.buf[i]]]

(***************************************************************************)
(* FLI_BRUN (codec/codec015.rs).                                           *)
(***************************************************************************)
FLI_BRUN == 15

\* while (i < len) && (buf[i] == c) { i = i + 1 }
ValueRunEnd(buf, i, c) ==
    LET Go(j) == j < Len(buf) /\ At(buf, j) = c
    IN  FirstStop(i, Len(buf), 1, Go)

\* GroupByValue::next at idx: [some, g, idx]
GroupByValue_next(buf, idx) ==
    IF idx >= Len(buf) THEN [some |-> FALSE, g |-> Same(idx, 0), idx |-> idx]
    ELSE LET e == ValueRunEnd(buf, idx, At(buf, idx))
         IN  [some |-> TRUE, g |-> Same(idx, e - idx), idx |-> e]

\* combine_packets of codec015: [some, g]
brun_combine_packets(s0, s1) ==
    IF s0.same /\ s0.start = 0 /\ s0.n = 0 THEN [some |-> TRUE, g |-> s1]
    ELSE IF s0.same
    THEN [some |-> 1 + s0.n + s1.n <= 4, g |-> Diff(s0.start, s0.n + s1.n)]
    ELSE [some |-> s1.n <= 2, g |-> Diff(s0.start, s0.n + s1.n)]

\* a write_packet of codec015 that counts the packet and writes nothing
brun_drop_packet(g, count, buf) == [count |-> count + 1, bytes |-> <<>>]

\* a write_packet of codec015 that writes the whole group as one packet
brun_write_packet_unsplit(g, count, buf) ==
    IF g.n <= 0 THEN [count |-> count, bytes |-> <<>>]
    ELSE IF g.same
    THEN [count |-> count + 1, bytes |-> <<u8(g.n), At(buf, g.start)>>]
    ELSE [count |-> count + 1,
          bytes |-> <<u8(256 - (g.n % 256))>> \o Slice(buf, g.start, g.start + g.n)]

\* write_packet of codec015: [count, bytes]
RECURSIVE brun_write_packet(_, _, _)
brun_write_packet(g, count, buf) ==
    IF g.n <= 0 THEN [count |-> count, bytes |-> <<>>]
    ELSE IF g.same
    THEN LET l == Min(g.n, 127)
             rest == brun_write_packet(Same(g.start, g.n - l), count + 1, buf)
         IN  [count |-> rest.count, bytes |-> <<u8(l), At(buf, g.start)>> \o rest.bytes]
    ELSE LET l == Min(g.n, 128)
             rest == brun_write_packet(Diff(g.start + l, g.n - l), count + 1, buf)
         IN  [count |-> rest.count,
              bytes |-> <<u8(256 - l)>> \o Slice(buf, g.start, g.start + l) \o rest.bytes]

\* the loop over the groups of one row: [count, bytes]
RECURSIVE brun_row_groups(_, _, _, _, _)
brun_row_groups(n, idx, state, count, bytes) ==
    Let(GroupByValue_next(n, idx), LAMBDA nx :
    Let(brun_combine_packets(state, nx.g), LAMBDA c :
        IF ~nx.some
        THEN Let(brun_write_packet(state, count, n), LAMBDA w1 :
                 [count |-> w1.count, bytes |-> bytes \o w1.bytes])
        ELSE IF c.some THEN brun_row_groups(n, nx.idx, c.g, count, bytes)
        ELSE Let(brun_write_packet(state, count, n), LAMBDA w1 :
                 brun_row_groups(n, nx.idx, nx.g, w1.count, bytes \o w1.bytes))))

\* one row of encode_fli_brun, with its count byte
brun_encode_row(n) ==
    Let(brun_row_groups(n, 0, Same(0, 0), 0, <<>>), LAMBDA gs :
        <<IF gs.count <= U8_MAX THEN gs.count ELSE 0>> \o gs.bytes)

RECURSIVE brun_encode_rows(_, _, _)
brun_encode_rows(next, k, bytes) ==
    IF k >= next.h THEN [res |-> "Ok", bytes |-> bytes]
    ELSE Let(bytes \o brun_encode_row(VisRow(next, next.y + k)), LAMBDA b2 :
             IF Len(b2) > next.w * next.h THEN [res |-> "ExceededLimit", bytes |-> b2]
             ELSE brun_encode_rows(next, k + 1, b2))

\* encode_fli_brun: [res, size, bytes]
encode_fli_brun(next) ==
    Let(brun_encode_rows(next, 0, <<>>), LAMBDA rows :
        IF rows.res # "Ok" THEN [res |-> rows.res, size |-> 0, bytes |-> rows.bytes]
        ELSE Let(PadEven(rows.bytes), LAMBDA padded :
                 [res |-> "Ok", size |-> Len(padded), bytes |-> padded]))

\* the packets of one row of decode_fli_brun, from column x0: [res, buf, r]
RECURSIVE brun_decode_packets(_, _, _, _, _, _)
brun_decode_packets(src, r, buf, row0, w, x0) ==
    IF x0 >= w THEN [res |-> "Ok", buf |-> buf, r |-> r]
    ELSE IF r + 1 > Len(src) THEN [res |-> "Io", buf |-> buf, r |-> r]
    ELSE LET signed_length == i8(At(src, r))
             len == IF signed_length >= 0 THEN signed_length ELSE -signed_length
             end == x0 + len
         IN  IF end > w THEN [res |-> "Corrupted", buf |-> buf, r |-> r + 1]
             ELSE IF signed_length >= 0
             THEN IF r + 2 > Len(src) THEN [res |-> "Io", buf |-> buf, r |-> r + 1]
                  ELSE brun_decode_packets(src, r + 2,
                            Patch(buf, row0 + x0, Fill(len, At(src, r + 1))), row0, w, end)
             ELSE IF r + 1 + len > Len(src) THEN [res |-> "Io", buf |-> buf, r |-> r + 1]
                  ELSE brun_decode_packets(src, r + 1 + len,
                            Patch(buf, row0 + x0, Slice(src, r + 1, r + 1 + len)), row0, w, end)

RECURSIVE brun_decode_rows(_, _, _, _, _)
brun_decode_rows(src, r, d, buf, k) ==
    IF k >= d.h THEN [res |-> "Ok", buf |-> buf, r |-> r]
    ELSE IF r + 1 > Len(src) THEN [res |-> "Io", buf |-> buf, r |-> r]
    ELSE Let(brun_decode_packets(src, r + 1, buf, d.stride * (d.y + k) + d.x, d.w, 0),
             LAMBDA row :
             IF row.res # "Ok" THEN row ELSE brun_decode_rows(src, row.r, d, row.buf, k + 1))

\* decode_fli_brun: [res, buf]
decode_fli_brun(src, d) ==
    Let(brun_decode_rows(src, 0, d, d.buf, 0), LAMBDA rows :
        [res |-> rows.res, buf |-> rows.buf])

(***************************************************************************)
(* FLI_SS2 (codec/codec007.rs).                                            *)
(***************************************************************************)
FLI_SS2 == 7

\* a convert_packet that turns the last changed byte into a one-word Memset
ss2_convert_packet_wide(g) ==
    IF g.same THEN Op("Skip", 0, g.n)
    ELSE IF g.n = 1 THEN Op("Memset", g.start, 2)
    ELSE IF g.n % 2 = 0 THEN Op("Memset", g.start, g.n)
    ELSE Op("Panic", g.start, g.n)

\* convert_packet of codec007; the assertion on an odd Diff length gives "Panic"
ss2_convert_packet(g) ==
    IF g.same THEN Op("Skip", 0, g.n)
    ELSE IF g.n = 1 THEN Op("SetEnd", g.start, 1)
    ELSE IF g.n % 2 = 0 THEN Op("Memset", g.start, g.n)
    ELSE Op("Panic", g.start, g.n)

\* combine_packets of codec007: [some, op]; unreachable!() gives op "Panic"
ss2_combine_packets(s0, s1) ==
    IF s0.op = "Skip" /\ s1.same THEN [some |-> TRUE, op |-> Op("Skip", 0, s0.len + s1.n)]
    ELSE IF s0.op = "Skip" /\ s1.n = 1 THEN [some |-> TRUE, op |-> ss2_convert_packet(s1)]
    ELSE IF s0.op = "Skip" THEN [some |-> FALSE, op |-> s0]
    ELSE IF s0.op = "SetEnd" THEN [some |-> TRUE, op |-> Op("Panic", 0, 0)]
    ELSE IF ~s1.same /\ s1.n = 1 THEN [some |-> FALSE, op |-> s0]
    ELSE IF s0.op = "Memset" /\ s1.same
    THEN [some |-> s0.len + s1.n < 4, op |-> Op("Memcpy", s0.idx, s0.len + s1.n)]
    ELSE IF s0.op = "Memset"
    THEN [some |-> s0.len + s1.n <= 6, op |-> Op("Memcpy", s0.idx, s0.len + s1.n)]
    ELSE IF s1.same
    THEN [some |-> s1.n < 2, op |-> Op("Memcpy", s0.idx, s0.len + s1.n)]
    ELSE [some |-> s1.n < 6, op |-> Op("Memcpy", s0.idx, s0.len + s1.n)]

\* write_packet of codec007 for a length already halved: [count, bytes]
RECURSIVE ss2_write_halved(_, _, _, _, _)
ss2_write_halved(kind, idx, len, count, buf) ==
    IF kind = "Memset"
    THEN IF len > 128
         THEN LET rest == ss2_write_halved(kind, idx, len - 128, count + 2, buf)
              IN  [count |-> rest.count,
                   bytes |-> <<u8(128), At(buf, idx), At(buf, idx + 1), 0>> \o rest.bytes]
         ELSE [count |-> count + 1,
               bytes |-> <<u8(256 - len), At(buf, idx), At(buf, idx + 1)>>]
    ELSE IF len > 127
         THEN LET rest == ss2_write_halved(kind, idx + 2 * 127, len - 127, count + 2, buf)
              IN  [count |-> rest.count,
                   bytes |-> <<127>> \o Slice(buf, idx, idx + 2 * 127) \o <<0>> \o rest.bytes]
         ELSE [count |-> count + 1, bytes |-> <<u8(len)>> \o Slice(buf, idx, idx + 2 * len)]

\* write_packet of codec007: [panic, count, bytes]
ss2_write_packet(op, count, buf) ==
    IF op.op = "Skip"
    THEN Let(lc_write_packet(op, count, buf), LAMBDA w1 :
             [panic |-> FALSE, count |-> w1.count, bytes |-> w1.bytes])
    ELSE IF op.op \in {"Memset", "Memcpy"} /\ op.len % 2 = 0 /\ op.idx + op.len <= Len(buf)
    THEN Let(ss2_write_halved(op.op, op.idx, op.len \div 2, count, buf), LAMBDA w1 :
             [panic |-> FALSE, count |-> w1.count, bytes |-> w1.bytes])
    ELSE [panic |-> TRUE, count |-> count, bytes |-> <<>>]

\* the loop over the groups of one row: [panic, state, packets]
RECURSIVE ss2_row_groups(_, _, _, _, _)
ss2_row_groups(p, n, it, state, packets) ==
    Let(GroupByRuns_next(p, n, it), LAMBDA nx :
    Let(ss2_combine_packets(state, nx.g), LAMBDA c :
        IF ~nx.some THEN [panic |-> FALSE, state |-> state, packets |-> packets]
        ELSE IF c.some
        THEN IF c.op.op = "Panic" THEN [panic |-> TRUE, state |-> state, packets |-> packets]
             ELSE IF c.op.op = "Memcpy" /\ c.op.len % 2 = 1
             THEN ss2_row_groups(p, n, [nx.it EXCEPT !.idx = nx.it.idx + 1],
                                 Op("Memcpy", c.op.idx, c.op.len + 1), packets)
             ELSE ss2_row_groups(p, n, nx.it, c.op, packets)
        ELSE Let(ss2_convert_packet(nx.g), LAMBDA new_state :
                 IF new_state.op = "Panic"
                 THEN [panic |-> TRUE, state |-> state, packets |-> packets]
                 ELSE ss2_row_groups(p, n, nx.it, new_state,
                          IF state.op = "Skip" \/ new_state.op \in {"Skip", "SetEnd"}
                          THEN Append(packets, state)
                          ELSE packets \o <<state, Op("Skip", 0, 0)>>))))

\* the packets of a row written one after another: [panic, count, bytes]
RECURSIVE ss2_write_packets(_, _, _, _, _)
ss2_write_packets(packets, i, count, buf, bytes) ==
    IF i > Len(packets) THEN [panic |-> FALSE, count |-> count, bytes |-> bytes]
    ELSE Let(ss2_write_packet(packets[i], count, buf), LAMBDA w1 :
             IF w1.panic THEN [panic |-> TRUE, count |-> count, bytes |-> bytes]
             ELSE ss2_write_packets(packets, i + 1, w1.count, buf, bytes \o w1.bytes))

\* an encode_fli_ss2 that writes no line-skip words
ss2_no_skip_words(skip_count) == <<>>

\* the line-skip words written before a changed row
RECURSIVE ss2_skip_words(_)
ss2_skip_words(skip_count) ==
    IF skip_count = 0 THEN <<>>
    ELSE IF skip_count > 16384 THEN le16(65536 - 16384) \o ss2_skip_words(skip_count - 16384)
    ELSE le16(65536 - skip_count)

\* a changed row of encode_fli_ss2: [res, bytes]
ss2_encode_row(p, n) ==
    Let([GroupByRuns_new(FALSE) EXCEPT !.prepend_same_run = TRUE,
                                       !.ignore_final_same_run = TRUE], LAMBDA it0 :
    Let(ss2_row_groups(p, n, it0, Op("Skip", 0, 0), <<>>), LAMBDA gs :
    Let(IF gs.state.op = "SetEnd" THEN <<At(n, gs.state.idx), 128>> ELSE <<>>, LAMBDA last :
    Let(IF gs.state.op \in {"Skip", "SetEnd"} THEN gs.packets
        ELSE Append(gs.packets, gs.state), LAMBDA packets :
    Let(ss2_write_packets(packets, 1, 0, n, <<>>), LAMBDA ws :
        IF gs.panic \/ ws.panic \/ ws.count % 2 # 0 THEN [res |-> "Panic", bytes |-> last]
        ELSE IF ws.count > 2 * 32767
        THEN [res |-> "ExceededLimit", bytes |-> last \o <<0, 0>> \o ws.bytes]
        ELSE [res |-> "Ok", bytes |-> last \o le16(ws.count \div 2) \o ws.bytes])))))

\* the row loop of encode_fli_ss2: [res, line_count, bytes]
RECURSIVE ss2_encode_rows(_, _, _, _, _, _)
ss2_encode_rows(prev, next, k, line_count, skip_count, bytes) ==
    IF k >= next.h THEN [res |-> "Ok", line_count |-> line_count, bytes |-> bytes]
    ELSE Let(VisRow(prev, prev.y + k), LAMBDA p :
         Let(VisRow(next, next.y + k), LAMBDA n :
             IF p = n
             THEN ss2_encode_rows(prev, next, k + 1, line_count, skip_count + 1, bytes)
             ELSE IF line_count = U16_MAX
             THEN [res |-> "ExceededLimit", line_count |-> line_count, bytes |-> bytes]
             ELSE Let(ss2_encode_row(p, n), LAMBDA row :
                  Let(bytes \o ss2_skip_words(skip_count) \o row.bytes, LAMBDA b2 :
                      IF row.res # "Ok"
                      THEN [res |-> row.res, line_count |-> line_count + 1, bytes |-> b2]
                      ELSE IF Len(b2) > next.w * next.h
                      THEN [res |-> "ExceededLimit", line_count |-> line_count + 1,
                            bytes |-> b2]
                      ELSE ss2_encode_rows(prev, next, k + 1, line_count + 1, 0, b2)))))

\* encode_fli_ss2: [res, size, bytes]
encode_fli_ss2(prev, next) ==
    IF prev.w # next.w \/ prev.h # next.h
    THEN [res |-> "WrongResolution", size |-> 0, bytes |-> <<>>]
    ELSE Let(ss2_encode_rows(prev, next, 0, 0, 0, <<0, 0>>), LAMBDA rows :
             IF rows.res # "Ok" THEN [res |-> rows.res, size |-> 0, bytes |-> rows.bytes]
             ELSE IF Len(rows.bytes) % 2 # 0
             THEN [res |-> "Panic", size |-> 0, bytes |-> rows.bytes]
             ELSE [res |-> "Ok", size |-> Len(rows.bytes),
                   bytes |-> le16(rows.line_count) \o Slice(rows.bytes, 2, Len(rows.bytes))])

\* the packets of one row of decode_fli_ss2: [res, buf, r]
RECURSIVE ss2_decode_packets(_, _, _, _, _, _, _)
ss2_decode_packets(src, r, buf, row0, rowlen, x0, count) ==
    IF count = 0 THEN [res |-> "Ok", buf |-> buf, r |-> r]
    ELSE IF r + 2 > Len(src) THEN [res |-> "Io", buf |-> buf, r |-> r]
    ELSE LET nskip == At(src, r)
             signed_length == i8(At(src, r + 1))
             len == IF signed_length >= 0 THEN signed_length ELSE -signed_length
             start == x0 + nskip
             end == start + 2 * len
         IN  IF signed_length >= 0
             THEN IF end > rowlen THEN [res |-> "Corrupted", buf |-> buf, r |-> r + 2]
                  ELSE IF r + 2 + 2 * len > Len(src) THEN [res |-> "Io", buf |-> buf, r |-> r + 2]
                  ELSE ss2_decode_packets(src, r + 2 + 2 * len,
                            Patch(buf, row0 + start, Slice(src, r + 2, r + 2 + 2 * len)),
                            row0, rowlen, end, count - 1)
             ELSE IF r + 4 > Len(src) THEN [res |-> "Io", buf |-> buf, r |-> r + 2]
                  ELSE IF end > rowlen THEN [res |-> "Corrupted", buf |-> buf, r |-> r + 4]
                  ELSE ss2_decode_packets(src, r + 4,
                            Patch(buf, row0 + start,
                                  [i \in 1..(2 * len) |-> At(src, r + 2 + ((i - 1) % 2))]),
                            row0, rowlen, end, count - 1)

\* the line loop of decode_fli_ss2: [res, buf]
RECURSIVE ss2_decode_lines(_, _, _, _, _, _)
ss2_decode_lines(src, r, d, buf, y, h) ==
    IF ~(y < d.h /\ h > 0) THEN [res |-> "Ok", buf |-> buf]
    ELSE IF r + 2 > Len(src) THEN [res |-> "Io", buf |-> buf]
    ELSE Let(rd16(src, r), LAMBDA count :
             IF count >= 49152
             THEN ss2_decode_lines(src, r + 2, d, buf, y + (65536 - count), h)
             ELSE IF count >= 32768
             THEN Let(Patch(buf, d.stride * (d.y + y) + (d.x + d.w - 1), <<count % 256>>),
                      LAMBDA buf2 :
                      IF r + 4 > Len(src) THEN [res |-> "Io", buf |-> buf2]
                      ELSE IF rd16(src, r + 2) = 0
                      THEN ss2_decode_lines(src, r + 4, d, buf2, y + 1, h - 1)
                      ELSE Let(ss2_decode_packets(src, r + 4, buf2, d.stride * (d.y + y),
                                                  d.stride, d.x, rd16(src, r + 2)), LAMBDA row :
                               IF row.res # "Ok" THEN [res |-> row.res, buf |-> row.buf]
                               ELSE ss2_decode_lines(src, row.r, d, row.buf, y + 1, h - 1)))
             ELSE Let(ss2_decode_packets(src, r + 2, buf, d.stride * (d.y + y),
                                         d.stride, d.x, count), LAMBDA row :
                      IF row.res # "Ok" THEN [res |-> row.res, buf |-> row.buf]
                      ELSE ss2_decode_lines(src, row.r, d, row.buf, y + 1, h - 1)))

\* decode_fli_ss2: [res, buf]
decode_fli_ss2(src, d) ==
    IF Len(src) < 2 THEN [res |-> "Io", buf |-> d.buf]
    ELSE ss2_decode_lines(src, 2, d, d.buf, 0, rd16(src, 0))

(***************************************************************************)
(* FLI_COLOR256 (codec/codec004.rs) and FLI_COLOR64 (codec/codec011.rs).   *)
(***************************************************************************)
FLI_COLOR256 == 4

FLI_COLOR64 == 11

FLI_ICOLORS == 14

\* pal.chunks(3): entry c of a palette
PalEntry(pal, c) == Slice(pal, 3 * c, 3 * c + 3)

\* the groups GroupByEq yields over the entries of two palettes from entry idx on,
\* with prepend_same_run and ignore_final_same_run set: a sequence of Same / Diff
RECURSIVE GroupByEq_groups(_, _, _, _)
GroupByEq_groups(old, new, idx, expected) ==
    LET len == Len(new) \div 3
        Go(j) == j < len /\ ((PalEntry(old, j) = PalEntry(new, j)) = expected)
    IN  Let(FirstStop(idx, len, 1, Go), LAMBDA e :
        IF expected
        THEN IF e >= len THEN <<>>
             ELSE <<Same(idx, e - idx)>> \o GroupByEq_groups(old, new, e, FALSE)
        ELSE IF e >= len THEN <<Diff(idx, e - idx)>>
             ELSE <<Diff(idx, e - idx)>> \o GroupByEq_groups(old, new, e, TRUE))

\* an encoder that stores every component undivided
color_store_raw(magic, v) == v

\* the component as the encoder stores it: `v` for COLOR256, `v / 4` for COLOR64
color_store(magic, v) == IF magic = FLI_COLOR64 THEN v \div 4 ELSE v

\* the component as the decoder loads it: `v` for COLOR256, `4 * v` for COLOR64
color_load(magic, v) == IF magic = FLI_COLOR64 THEN 4 * v ELSE v

\* the bytes written for the groups from the i-th on
RECURSIVE color_group_bytes(_, _, _, _)
color_group_bytes(magic, next, gs, i) ==
    IF i > Len(gs) THEN <<>>
    ELSE LET g == gs[i]
             data == [k \in 1..(3 * g.n) |-> color_store(magic, At(next.pal, 3 * g.start + k - 1))]
         IN  (IF g.same THEN <<u8(g.n)>> ELSE <<u8(g.n)>> \o data)
                \o color_group_bytes(magic, next, gs, i + 1)

\* encode_fli_color256_full / encode_fli_color64_full: [res, size, bytes]
encode_color_full(magic, next) ==
    IF Len(next.pal) % 3 # 0 \/ Len(next.pal) > PAL_LEN
    THEN [res |-> "BadInput", size |-> 0, bytes |-> <<>>]
    ELSE Let(le16(1) \o <<0, u8(Len(next.pal) \div 3)>>
                \o [k \in 1..Len(next.pal) |-> color_store(magic, next.pal[k])], LAMBDA bytes :
             [res |-> "Ok", size |-> Len(bytes), bytes |-> bytes])

\* a delta encoder that writes the whole palette whatever prev holds
encode_color_delta_whole(magic, prev, next) == encode_color_full(magic, next)

\* encode_fli_color256_delta / encode_fli_color64_delta: [res, size, bytes];
\* a failed assertion gives "Panic"; with size 0 the writer is back at the start
encode_color_delta(magic, prev, next) ==
    IF Len(prev.pal) # Len(next.pal) \/ Len(prev.pal) % 3 # 0 \/ Len(next.pal) % 3 # 0
    THEN [res |-> "BadInput", size |-> 0, bytes |-> <<>>]
    ELSE Let(GroupByEq_groups(prev.pal, next.pal, 0, TRUE), LAMBDA gs :
         Let(Len(gs), LAMBDA count :
         Let(PadEven(<<0, 0>> \o color_group_bytes(magic, next, gs, 1)), LAMBDA body :
             IF \E i \in 1..Len(gs) : gs[i].n > (IF gs[i].same THEN U8_MAX ELSE U8_MAX + 1)
             THEN [res |-> "Panic", size |-> 0, bytes |-> <<>>]
             ELSE IF count > 0
             THEN IF count % 2 # 0 THEN [res |-> "Panic", size |-> 0, bytes |-> body]
                  ELSE [res |-> "Ok", size |-> Len(body),
                        bytes |-> le16(count \div 2) \o Slice(body, 2, Len(body))]
             ELSE [res |-> "Ok", size |-> 0, bytes |-> body])))

\* encode_fli_color256 / encode_fli_color64
encode_fli_color(magic, prev, next) ==
    IF prev = None THEN encode_color_full(magic, next) ELSE encode_color_delta(magic, prev, next)

encode_fli_color256(prev, next) == encode_fli_color(FLI_COLOR256, prev, next)

encode_fli_color64(prev, next) == encode_fli_color(FLI_COLOR64, prev, next)

\* the first offset in start..end-1 of pal whose stored value is out of the
\* COLOR64 range, or end
color64_bad(src, r, n) ==
    LET Go(j) == j < n /\ At(src, r + j) <= U8_MAX \div 4
    IN  FirstStop(0, n, 1, Go)

\* the packets of decode_fli_color256 / decode_fli_color64: [res, pal]
RECURSIVE color_decode_packets(_, _, _, _, _, _)
color_decode_packets(magic, src, r, pal, idx0, count) ==
    IF count = 0 THEN [res |-> "Ok", pal |-> pal]
    ELSE IF r + 2 > Len(src) THEN [res |-> "Io", pal |-> pal]
    ELSE LET nskip == At(src, r)
             ncopy == IF At(src, r + 1) = 0 THEN 256 ELSE At(src, r + 1)
             start == idx0 + 3 * nskip
             end == start + 3 * ncopy
         IN  IF end > Len(pal) THEN [res |-> "Corrupted", pal |-> pal]
             ELSE IF r + 2 + 3 * ncopy > Len(src) THEN [res |-> "Io", pal |-> pal]
             ELSE Let(IF magic = FLI_COLOR64 THEN color64_bad(src, r + 2, 3 * ncopy)
                      ELSE 3 * ncopy, LAMBDA bad :
                  Let(Patch(pal, start,
                            [k \in 1..(3 * ncopy) |->
                                IF k - 1 < bad THEN color_load(magic, At(src, r + 1 + k))
                                ELSE At(src, r + 1 + k)]), LAMBDA pal2 :
                      IF bad < 3 * ncopy THEN [res |-> "Corrupted", pal |-> pal2]
                      ELSE color_decode_packets(magic, src, r + 2 + 3 * ncopy,
                                                pal2, end, count - 1)))

\* decode_fli_color256 / decode_fli_color64: [res, pal]
decode_fli_color(magic, src, d) ==
    IF Len(src) < 2 THEN [res |-> "Io", pal |-> d.pal]
    ELSE color_decode_packets(magic, src, 2, d.pal, 0, rd16(src, 0))

decode_fli_color256(src, d) == decode_fli_color(FLI_COLOR256, src, d)

decode_fli_color64(src, d) == decode_fli_color(FLI_COLOR64, src, d)

(***************************************************************************)
(* Seekable writers (std::io::Cursor<Vec<u8>>, File): [buf, pos].          *)
(***************************************************************************)
\* write_all at the current position, growing the buffer when needed
W_write(f, bytes) ==
    [buf |-> SubSeq(f.buf, 1, f.pos) \o bytes
             \o SubSeq(f.buf, f.pos + Len(bytes) + 1, Len(f.buf)),
     pos |-> f.pos + Len(bytes)]

\* seek(SeekFrom::Start(pos))
W_seek(f, pos) == [buf |-> f.buf, pos |-> pos]

\* the effect of running an encoder on the writer: its bytes land at the
\* current position; on success the position is start + size, on an error
\* it stays behind the last byte written
W_emit(f, enc) ==
    W_seek(W_write(f, enc.bytes),
           IF enc.res = "Ok" THEN f.pos + enc.size ELSE f.pos + Len(enc.bytes))

(***************************************************************************)
(* LinScale (codec/mod.rs).                                                *)
(***************************************************************************)
\* width in bits of the usize of the model
UsizeBits == 16

USIZE_MAX == 2 ^ UsizeBits - 1

\* LinScale::new
LinScale_new(sw, dw) == [sw |-> sw, dw |-> dw, sx |-> 0, dx |-> 0, xerr |-> sw \div 2]

\* a LinScale::next whose sum sw + xerr wraps unnoticed
LinScale_next_wrapping(it) ==
    IF it.dx >= it.dw THEN [some |-> FALSE, sx |-> 0, dx |-> 0, it |-> it]
    ELSE LET add == (it.sw + it.xerr) % (USIZE_MAX + 1)
         IN  [some |-> TRUE, sx |-> it.sx, dx |-> it.dx,
              it |-> IF it.dx + 1 >= it.dw THEN [it EXCEPT !.dx = it.dx + 1, !.sx = it.sw]
                     ELSE [it EXCEPT !.dx = it.dx + 1, !.sx = it.sx + add \div it.dw,
                                     !.xerr = add % it.dw]]

\* LinScale::next: [some, sx, dx, it]
LinScale_next(it) ==
    IF it.dx >= it.dw THEN [some |-> FALSE, sx |-> 0, dx |-> 0, it |-> it]
    ELSE LET dx1 == it.dx + 1
             total == it.sw + it.xerr
             overflow == total > USIZE_MAX
             add == total % (USIZE_MAX + 1)
             div == add \div it.dw
             rem == add - div * it.dw
             add1 == add + 1
             div1 == add1 \div it.dw
             rem1 == add1 - div1 * it.dw
             div2 == USIZE_MAX \div it.dw
             rem2 == USIZE_MAX - div2 * it.dw
             div3 == (rem1 + rem2) \div it.dw
             rem3 == (rem1 + rem2) - div3 * it.dw
             it1 == IF dx1 >= it.dw THEN [it EXCEPT !.dx = dx1, !.sx = it.sw]
                    ELSE IF ~overflow
                    THEN [it EXCEPT !.dx = dx1, !.sx = it.sx + div, !.xerr = rem]
                    ELSE [it EXCEPT !.dx = dx1, !.sx = it.sx + div1 + div2 + div3,
                                    !.xerr = rem3]
         IN  [some |-> TRUE, sx |-> it.sx, dx |-> it.dx, it |-> it1]

\* the source coordinates LinScale yields, in the order of dx = 0, 1, ...
RECURSIVE LinScale_items(_, _)
LinScale_items(it, acc) ==
    Let(LinScale_next(it), LAMBDA n :
        IF ~n.some THEN acc ELSE LinScale_items(n.it, Append(acc, n.sx)))

(***************************************************************************)
(* FLI_PSTAMP (codec/codec018.rs, pstamp.rs).                              *)
(***************************************************************************)
FLI_PSTAMP == 18

FPS_XLAT256 == FLI_PSTAMP

FPS_BRUN == FLI_BRUN

FPS_COPY == FLI_COPY

PSTAMP_SIXCUBE == 1

STANDARD_PSTAMP_W == 100

STANDARD_PSTAMP_H == 63

\* a make_pstamp_xlat256 that rounds each level to the nearest integer
make_pstamp_xlat256_rounded(pal) ==
    [i \in 1..256 |->
        ((((6 * pal[3 * (i - 1) + 1] + 128) \div 256) * 36)
         + (((6 * pal[3 * (i - 1) + 2] + 128) \div 256) * 6)
         + ((6 * pal[3 * (i - 1) + 3] + 128) \div 256)) % 256]

\* make_pstamp_xlat256: the 256 six-cube indices of a palette
make_pstamp_xlat256(pal) ==
    [i \in 1..256 |->
        ((((6 * pal[3 * (i - 1) + 1]) \div 256) * 36)
         + (((6 * pal[3 * (i - 1) + 2]) \div 256) * 6)
         + ((6 * pal[3 * (i - 1) + 3]) \div 256)) % 256]

\* prepare_pstamp: the dst_w x dst_h image, scaled down and remapped
prepare_pstamp(src, xlat256, dst_w, dst_h) ==
    Let(LinScale_items(LinScale_new(src.h, dst_h), <<>>), LAMBDA sys :
    Let(LinScale_items(LinScale_new(src.w, dst_w), <<>>), LAMBDA sxs :
        [i \in 1..(dst_w * dst_h) |->
            At(xlat256, At(src.buf, src.stride * (src.y + At(sys, (i - 1) \div dst_w))
                                    + src.x + At(sxs, (i - 1) % dst_w)))]))

\* a get_pstamp_size that leaves a scaled size of 0 as it is
get_pstamp_size_unclamped(max_w, max_h, w, h) ==
    IF max_w <= 0 \/ max_h <= 0 \/ w <= 0 \/ h <= 0 THEN <<0, 0>>
    ELSE IF (w * max_h) \div h > max_w THEN <<max_w, ((h * max_w) \div w) % 65536>>
    ELSE <<((w * max_h) \div h) % 65536, max_h>>

\* get_pstamp_size: <<scaled_w, scaled_h>>
get_pstamp_size(max_w, max_h, w, h) ==
    IF max_w <= 0 \/ max_h <= 0 \/ w <= 0 \/ h <= 0 THEN <<0, 0>>
    ELSE LET wide == (w * max_h) \div h > max_w
             sw == IF wide THEN max_w ELSE ((w * max_h) \div h) % 65536
             sh == IF wide THEN ((h * max_w) \div w) % 65536 ELSE max_h
         IN  <<IF sw <= 0 THEN 1 ELSE sw, IF sh <= 0 THEN 1 ELSE sh>>

\* the sub-chunk of write_pstamp_data, written behind the reserved header
\* at pos1: [res, chunk_size, chunk_magic, f]
pstamp_sub_chunk(next, xlat256, pstamp_w, pstamp_h, pos1, f) ==
    IF next.w * next.h < pstamp_w * pstamp_h
    THEN [res |-> "Ok", chunk_size |-> 256, chunk_magic |-> FPS_XLAT256,
          f |-> W_write(f, xlat256)]
    ELSE Let(Raster_new(pstamp_w, pstamp_h,
                        prepare_pstamp(next, xlat256, pstamp_w, pstamp_h), next.pal),
             LAMBDA pstamp :
         Let(encode_fli_brun(pstamp), LAMBDA brun :
         Let(W_emit(f, brun), LAMBDA f1 :
             IF brun.res \notin {"Ok", "ExceededLimit"}
             THEN [res |-> brun.res, chunk_size |-> 0, chunk_magic |-> FPS_COPY, f |-> f1]
             ELSE IF brun.res = "Ok" /\ brun.size < pstamp_w * pstamp_h
             THEN [res |-> "Ok", chunk_size |-> brun.size, chunk_magic |-> FPS_BRUN,
                   f |-> f1]
             ELSE Let(encode_fli_copy(pstamp), LAMBDA copy :
                      [res |-> "Ok", chunk_size |-> copy.size, chunk_magic |-> FPS_COPY,
                       f |-> W_emit(W_seek(f1, pos1), copy)]))))

\* SIZE_OF_FULL_CHUNK of write_pstamp_data
SIZE_OF_FULL_CHUNK == 18

\* write_pstamp_data: [res, size, f]
write_pstamp_data(next, f) ==
    IF next.w > U16_MAX \/ next.h > U16_MAX
    THEN [res |-> "ExceededLimit", size |-> 0, f |-> f]
    ELSE Let(get_pstamp_size(STANDARD_PSTAMP_W, STANDARD_PSTAMP_H, next.w, next.h),
             LAMBDA ps :
             IF ps[1] <= 0 \/ ps[2] <= 0 \/ can_encode_fli_black(next)
             THEN [res |-> "Ok", size |-> 0, f |-> f]
             ELSE Let(f.pos, LAMBDA pos0 :
                  Let(W_write(f, Fill(SIZE_OF_FULL_CHUNK, 0)), LAMBDA f1 :
                  Let(pstamp_sub_chunk(next, make_pstamp_xlat256(next.pal),
                                       ps[1], ps[2], f1.pos, f1), LAMBDA sub :
                  Let(sub.f.pos, LAMBDA pos2 :
                      IF sub.res # "Ok" THEN [res |-> sub.res, size |-> 0, f |-> sub.f]
                      ELSE IF SIZE_OF_FULL_CHUNK + sub.chunk_size # pos2 - pos0
                      THEN [res |-> "Panic", size |-> 0, f |-> sub.f]
                      ELSE [res |-> "Ok", size |-> pos2 - pos0,
                            f |-> W_seek(W_write(W_seek(sub.f, pos0),
                                     le32(SIZE_OF_FULL_CHUNK + sub.chunk_size)
                                     \o le16(FLI_PSTAMP)
                                     \o le16(ps[2]) \o le16(ps[1]) \o le16(PSTAMP_SIXCUBE)
                                     \o le32(6 + sub.chunk_size) \o le16(sub.chunk_magic)),
                                   pos2)])))))

(***************************************************************************)
(* The container writer (flic.rs).                                         *)
(***************************************************************************)
FLIH_MAGIC == 44817

FLIHR_MAGIC == 44818

LIBFLIC_UPDATER_ID == 1179406931

SIZE_OF_FLIC_HEADER == 128

FCID_PREFIX == 61696

FCID_FRAME == 61946

SIZE_OF_FLIC_FRAME == 16

SIZE_OF_CHUNK == 6

\* write_color_data: [res, size, f]
write_color_data(flic_magic, prev, next, f) ==
    Let(f.pos, LAMBDA pos0 :
    Let(IF flic_magic = FLIH_MAGIC THEN encode_fli_color64(prev, next)
        ELSE encode_fli_color256(prev, next), LAMBDA enc :
    Let(IF flic_magic = FLIH_MAGIC THEN FLI_COLOR64 ELSE FLI_COLOR256, LAMBDA chunk_magic :
    Let(W_emit(W_write(f, Fill(SIZE_OF_CHUNK, 0)), enc), LAMBDA f2 :
        IF enc.res # "Ok" THEN [res |-> enc.res, size |-> 0, f |-> f2]
        ELSE IF enc.size > 0
        THEN [res |-> "Ok", size |-> SIZE_OF_CHUNK + enc.size,
              f |-> W_seek(W_write(W_seek(f2, pos0),
                                   le32(SIZE_OF_CHUNK + enc.size) \o le16(chunk_magic)),
                           f2.pos)]
        ELSE [res |-> "Ok", size |-> 0, f |-> W_seek(f2, pos0)]))))

\* write_pixel_data, "Try FLI_BLACK for first frame only"
pix_try_black(s, prev, next) ==
    IF s.ret = "go" /\ s.chunk_magic = FLI_COPY /\ prev = None /\ can_encode_fli_black(next)
    THEN [s EXCEPT !.chunk_size = 0, !.chunk_magic = FLI_BLACK]
    ELSE s

\* a write_pixel_data without its FLI_LC step
pix_skip_lc(s, pos0, prev, next) == s

\* write_pixel_data, "Try FLI_LC"
pix_try_lc(s, pos0, prev, next) ==
    IF s.ret = "go" /\ s.chunk_magic = FLI_COPY /\ prev # None
    THEN Let(encode_fli_lc(prev, next), LAMBDA enc :
         Let(W_emit(s.f, enc), LAMBDA f1 :
             IF enc.res \notin {"Ok", "ExceededLimit"}
             THEN [s EXCEPT !.f = f1, !.ret = enc.res]
             ELSE IF enc.res = "Ok" /\ enc.size = 0
             THEN [s EXCEPT !.f = W_seek(f1, pos0), !.ret = "Ok0"]
             ELSE IF enc.res = "Ok" /\ enc.size < s.chunk_size
             THEN [s EXCEPT !.f = f1, !.chunk_size = enc.size, !.chunk_magic = FLI_LC]
             ELSE [s EXCEPT !.f = W_seek(f1, pos0 + SIZE_OF_CHUNK)]))
    ELSE s

\* write_pixel_data, "Try FLI_SS2, which has higher limits"
pix_try_ss2(s, pos0, flic_magic, prev, next) ==
    IF s.ret = "go" /\ flic_magic = FLIHR_MAGIC /\ s.chunk_magic = FLI_COPY /\ prev # None
    THEN Let(encode_fli_ss2(prev, next), LAMBDA enc :
         Let(W_emit(s.f, enc), LAMBDA f1 :
             IF enc.res \notin {"Ok", "ExceededLimit"}
             THEN [s EXCEPT !.f = f1, !.ret = enc.res]
             ELSE IF enc.res = "Ok" /\ enc.size < s.chunk_size
             THEN [s EXCEPT !.f = f1, !.chunk_size = enc.size, !.chunk_magic = FLI_SS2]
             ELSE [s EXCEPT !.f = W_seek(f1, pos0 + SIZE_OF_CHUNK)]))
    ELSE s

\* a write_pixel_data without its FLI_BRUN step
pix_skip_brun(s, pos0, next) == s

\* write_pixel_data, "Try FLI_BRUN"
pix_try_brun(s, pos0, next) ==
    IF s.ret = "go" /\ s.chunk_magic = FLI_COPY
    THEN Let(encode_fli_brun(next), LAMBDA enc :
         Let(W_emit(s.f, enc), LAMBDA f1 :
             IF enc.res \notin {"Ok", "ExceededLimit"}
             THEN [s EXCEPT !.f = f1, !.ret = enc.res]
             ELSE IF enc.res = "Ok" /\ enc.size < s.chunk_size
             THEN [s EXCEPT !.f = f1, !.chunk_size = enc.size, !.chunk_magic = FLI_BRUN]
             ELSE [s EXCEPT !.f = W_seek(f1, pos0 + SIZE_OF_CHUNK)]))
    ELSE s

\* write_pixel_data, "Try FLI_COPY"
pix_try_copy(s, next) ==
    IF s.ret = "go" /\ s.chunk_magic = FLI_COPY
    THEN Let(encode_fli_copy(next), LAMBDA enc :
             [s EXCEPT !.f = W_emit(s.f, enc), !.chunk_size = enc.size])
    ELSE s

\* write_pixel_data: [res, size, f, magic]; magic is the type of the chunk
\* kept, 0 when no chunk is kept
write_pixel_data(flic_magic, prev, next, f) ==
    LET pos0 == f.pos
        s0 == [f |-> W_write(f, Fill(SIZE_OF_CHUNK, 0)),
               chunk_size |-> next.w * next.h, chunk_magic |-> FLI_COPY, ret |-> "go"]
    IN  Let(pix_try_copy(
                pix_try_brun(
                    pix_try_ss2(
                        pix_try_lc(
                            pix_try_black(s0, prev, next),
                            pos0, prev, next),
                        pos0, flic_magic, prev, next),
                    pos0, next),
                next), LAMBDA s5 :
        Let(s5.f.pos, LAMBDA pos1 :
            IF s5.ret = "Ok0" THEN [res |-> "Ok", size |-> 0, f |-> s5.f, magic |-> 0]
            ELSE IF s5.ret # "go" THEN [res |-> s5.ret, size |-> 0, f |-> s5.f, magic |-> 0]
            ELSE IF SIZE_OF_CHUNK + s5.chunk_size # pos1 - pos0
            THEN [res |-> "Panic", size |-> 0, f |-> s5.f, magic |-> 0]
            ELSE [res |-> "Ok", size |-> pos1 - pos0,
                  f |-> W_seek(W_write(W_seek(s5.f, pos0),
                                       le32(pos1 - pos0) \o le16(s5.chunk_magic)), pos1),
                  magic |-> s5.chunk_magic]))

\* a write_next_frame that leaves the postage stamp out of the frame's size
\* and count
write_next_frame_unstamped(flic_magic, frame_count, prev, next, f) ==
    Let(f.pos, LAMBDA pos0 :
    Let(W_write(f, Fill(SIZE_OF_FLIC_FRAME, 0)), LAMBDA f1 :
    Let(IF flic_magic # FLIH_MAGIC /\ frame_count = 0
        THEN Let(write_pstamp_data(next, f1), LAMBDA r :
                 IF r.res = "Ok" THEN r
                 ELSE [res |-> "Ok", size |-> 0,
                       f |-> W_seek(r.f, pos0 + SIZE_OF_FLIC_FRAME)])
        ELSE [res |-> "Ok", size |-> 0, f |-> f1], LAMBDA ps :
    Let(write_color_data(flic_magic, prev, next, ps.f), LAMBDA col :
        IF col.res # "Ok" THEN [res |-> col.res, size |-> 0, f |-> col.f]
        ELSE
    Let(write_pixel_data(flic_magic, prev, next, col.f), LAMBDA pix :
        IF pix.res # "Ok" THEN [res |-> pix.res, size |-> 0, f |-> pix.f]
        ELSE
    Let(SIZE_OF_FLIC_FRAME + col.size + pix.size, LAMBDA size :
    Let((IF col.size > 0 THEN 1 ELSE 0) + (IF pix.size > 0 THEN 1 ELSE 0),
        LAMBDA num_chunks :
        [res |-> "Ok", size |-> size,
         f |-> W_seek(W_write(W_seek(pix.f, pos0),
                              le32(size) \o le16(FCID_FRAME) \o le16(num_chunks)),
                      pix.f.pos)])))))))

\* write_next_frame (the free function): [res, size, f]
write_next_frame(flic_magic, frame_count, prev, next, f) ==
    Let(f.pos, LAMBDA pos0 :
    Let(W_write(f, Fill(SIZE_OF_FLIC_FRAME, 0)), LAMBDA f1 :
    Let(IF flic_magic # FLIH_MAGIC /\ frame_count = 0
        THEN Let(write_pstamp_data(next, f1), LAMBDA r :
                 IF r.res = "Ok" THEN r
                 ELSE [res |-> "Ok", size |-> 0,
                       f |-> W_seek(r.f, pos0 + SIZE_OF_FLIC_FRAME)])
        ELSE [res |-> "Ok", size |-> 0, f |-> f1], LAMBDA ps :
    Let(write_color_data(flic_magic, prev, next, ps.f), LAMBDA col :
        IF col.res # "Ok" THEN [res |-> col.res, size |-> 0, f |-> col.f]
        ELSE
    Let(write_pixel_data(flic_magic, prev, next, col.f), LAMBDA pix :
        IF pix.res # "Ok" THEN [res |-> pix.res, size |-> 0, f |-> pix.f]
        ELSE
    Let(SIZE_OF_FLIC_FRAME + ps.size + col.size + pix.size, LAMBDA size :
    Let((IF ps.size > 0 THEN 1 ELSE 0) + (IF col.size > 0 THEN 1 ELSE 0)
        + (IF pix.size > 0 THEN 1 ELSE 0), LAMBDA num_chunks :
        IF size # pix.f.pos - pos0
        THEN [res |-> "Panic", size |-> 0, f |-> W_seek(pix.f, pos0)]
        ELSE [res |-> "Ok", size |-> size,
              f |-> W_seek(W_write(W_seek(pix.f, pos0),
                                   le32(size) \o le16(FCID_FRAME) \o le16(num_chunks)),
                           pix.f.pos)])))))))

\* write_empty_frame
write_empty_frame(f) ==
    W_write(f, le32(SIZE_OF_FLIC_FRAME) \o le16(FCID_FRAME) \o le16(0) \o Fill(8, 0))

\* write_fli_header
write_fli_header(hdr, f) ==
    W_write(f, le32(hdr.size) \o le16(FLIH_MAGIC) \o le16(hdr.frame_count)
               \o le16(hdr.w) \o le16(hdr.h) \o le16(8) \o le16(0)
               \o le16(hdr.speed_jiffies))

\* write_flc_header
write_flc_header(hdr, offset_frame1, offset_frame2, f) ==
    Let(W_write(f, le32(hdr.size) \o le16(FLIHR_MAGIC) \o le16(hdr.frame_count)
                   \o le16(hdr.w) \o le16(hdr.h) \o le16(8) \o le16(3)
                   \o le32(hdr.speed_msec)), LAMBDA f1 :
    Let(W_write(W_seek(f1, f1.pos + 2),
                le32(hdr.created) \o le32(hdr.creator) \o le32(hdr.updated)
                \o le32(hdr.updater) \o le16(hdr.aspect_x) \o le16(hdr.aspect_y)),
        LAMBDA f2 :
    Let(W_seek(f2, f2.pos + 38), LAMBDA f3 :
        IF offset_frame1 < offset_frame2
        THEN W_write(f3, le32(offset_frame1) \o le32(offset_frame2))
        ELSE f3)))

\* write_flic_header: [res, f]
write_flic_header(hdr, offset_frame1, offset_frame2, f) ==
    IF hdr.magic = FLIH_MAGIC THEN [res |-> "Ok", f |-> write_fli_header(hdr, f)]
    ELSE IF hdr.magic = FLIHR_MAGIC
    THEN [res |-> "Ok", f |-> write_flc_header(hdr, offset_frame1, offset_frame2, f)]
    ELSE [res |-> "BadMagic", f |-> f]

\* Animator 1's fixed resolution (320 x 200 in create_fli and
\* read_fli_header), scaled down to the rasters of the model
FliW == 6

FliH == 2

\* FlicFileWriter::create
FlicFileWriter_create(w, h, speed_msec) ==
    [hdr |-> [magic |-> FLIHR_MAGIC, size |-> 0, frame_count |-> 0, w |-> w, h |-> h,
              speed_msec |-> speed_msec,
              speed_jiffies |-> Min((speed_msec * 70) \div 1000, U16_MAX),
              created |-> 0, creator |-> 0, updated |-> 0,
              updater |-> LIBFLIC_UPDATER_ID, aspect_x |-> 1, aspect_y |-> 1],
     offset_frame1 |-> 0, offset_frame2 |-> 0,
     open |-> TRUE,
     file |-> [buf |-> Fill(SIZE_OF_FLIC_HEADER, 0), pos |-> SIZE_OF_FLIC_HEADER]]

\* FlicFileWriter::create_fli
FlicFileWriter_create_fli(speed_jiffies) ==
    [hdr |-> [magic |-> FLIH_MAGIC, size |-> 0, frame_count |-> 0, w |-> FliW, h |-> FliH,
              speed_msec |-> (speed_jiffies * 1000) \div 70,
              speed_jiffies |-> speed_jiffies,
              created |-> 0, creator |-> 0, updated |-> 0,
              updater |-> LIBFLIC_UPDATER_ID, aspect_x |-> 6, aspect_y |-> 5],
     offset_frame1 |-> 0, offset_frame2 |-> 0,
     open |-> TRUE,
     file |-> [buf |-> Fill(SIZE_OF_FLIC_HEADER, 0), pos |-> SIZE_OF_FLIC_HEADER]]

\* a FlicFileWriter::write_next_frame that hands the caller's prev on as it is
writer_prev_kept(frame_count, prev) == prev

\* the prev that FlicFileWriter::write_next_frame hands on
writer_prev(frame_count, prev) == IF frame_count = 0 THEN None ELSE prev

\* FlicFileWriter::write_next_frame: [res, w]
FlicFileWriter_write_next_frame(w, prev, next) ==
    IF ~w.open THEN [res |-> "NoFile", w |-> w]
    ELSE IF next.w # w.hdr.w \/ next.h # w.hdr.h THEN [res |-> "WrongResolution", w |-> w]
    ELSE IF w.hdr.frame_count = U16_MAX THEN [res |-> "ExceededLimit", w |-> w]
    ELSE Let(IF w.hdr.frame_count = 0 THEN [w EXCEPT !.offset_frame1 = w.file.pos]
             ELSE IF w.hdr.frame_count = 1 THEN [w EXCEPT !.offset_frame2 = w.file.pos]
             ELSE w, LAMBDA w1 :
         Let(write_next_frame(w.hdr.magic, w.hdr.frame_count,
                              writer_prev(w.hdr.frame_count, prev), next, w.file), LAMBDA r :
             IF r.res # "Ok" THEN [res |-> r.res, w |-> [w1 EXCEPT !.file = r.f]]
             ELSE [res |-> "Ok",
                   w |-> [w1 EXCEPT !.file = r.f,
                                    !.hdr.frame_count = w.hdr.frame_count + 1]]))

\* a frame counter without the test against u16::MAX: the increment wraps as
\* a release build's does
writer_frame_count_unlimited(open, frame_count, sized, inner) ==
    IF ~open THEN [res |-> "NoFile", frame_count |-> frame_count, wrote |-> FALSE]
    ELSE IF ~sized
    THEN [res |-> "WrongResolution", frame_count |-> frame_count, wrote |-> FALSE]
    ELSE IF inner # "Ok" THEN [res |-> inner, frame_count |-> frame_count, wrote |-> TRUE]
    ELSE [res |-> "Ok", frame_count |-> (frame_count + 1) % (U16_MAX + 1), wrote |-> TRUE]

\* what FlicFileWriter::write_next_frame does to hdr.frame_count: sized says
\* whether next has the header's size, inner is the result of the inner
\* write_next_frame(magic, frame_count, prev, next, file), wrote whether
\* that call was made: [res, frame_count, wrote]
writer_frame_count(open, frame_count, sized, inner) ==
    IF ~open THEN [res |-> "NoFile", frame_count |-> frame_count, wrote |-> FALSE]
    ELSE IF ~sized
    THEN [res |-> "WrongResolution", frame_count |-> frame_count, wrote |-> FALSE]
    ELSE IF frame_count = U16_MAX
    THEN [res |-> "ExceededLimit", frame_count |-> frame_count, wrote |-> FALSE]
    ELSE IF inner # "Ok" THEN [res |-> inner, frame_count |-> frame_count, wrote |-> TRUE]
    ELSE [res |-> "Ok", frame_count |-> frame_count + 1, wrote |-> TRUE]

\* a close that stores the number of frames written, the ring included
close_frame_count_kept(frame_count) == frame_count

\* the frame count close stores in the header
close_frame_count(frame_count) == IF frame_count = 1 THEN 1 ELSE frame_count - 1

\* a close that gives up on every writer
FlicFileWriter_close_refused(w) ==
    IF ~w.open THEN [res |-> "NoFile", w |-> w]
    ELSE [res |-> "Corrupted", w |-> [w EXCEPT !.open = FALSE]]

\* FlicFileWriter::close: [res, w]
FlicFileWriter_close(w) ==
    IF ~w.open THEN [res |-> "NoFile", w |-> w]
    ELSE IF w.hdr.frame_count = 0 THEN [res |-> "Corrupted", w |-> [w EXCEPT !.open = FALSE]]
    ELSE Let(IF w.hdr.frame_count = 1
             THEN [w EXCEPT !.offset_frame2 = w.file.pos,
                            !.file = write_empty_frame(w.file)]
             ELSE w, LAMBDA w1 :
         Let([w.hdr EXCEPT !.frame_count = close_frame_count(w.hdr.frame_count),
                           !.size = w1.file.pos], LAMBDA hdr :
         Let(write_flic_header(hdr, w1.offset_frame1, w1.offset_frame2,
                               W_seek(w1.file, 0)), LAMBDA h :
             [res |-> h.res, w |-> [w1 EXCEPT !.hdr = hdr, !.file = h.f, !.open = FALSE]])))

(***************************************************************************)
(* The container reader (flic.rs).                                         *)
(***************************************************************************)
FLI_WRUN == 1

FLI_SBSRSC == 10

\* read_fli_header: [res, hdr]
read_fli_header(buf, size, magic) ==
    LET frame_count == rd16(buf, 6)
        width == rd16(buf, 8)
        height == rd16(buf, 10)
        jiffy_speed == rd16(buf, 16)
    IN  IF width # FliW \/ height # FliH THEN [res |-> "WrongResolution", hdr |-> None]
        ELSE IF frame_count <= 0 THEN [res |-> "Corrupted", hdr |-> None]
        ELSE [res |-> "Ok",
              hdr |-> [magic |-> magic, size |-> size, frame_count |-> frame_count,
                       w |-> width, h |-> height,
                       speed_msec |-> (jiffy_speed * 1000) \div 70,
                       speed_jiffies |-> jiffy_speed,
                       created |-> 0, creator |-> 0, updated |-> 0, updater |-> 0,
                       aspect_x |-> 6, aspect_y |-> 5]]

\* read_flc_header: [res, hdr]
read_flc_header(buf, size, magic) ==
    LET frame_count == rd16(buf, 6)
        width == rd16(buf, 8)
        height == rd16(buf, 10)
        speed == rd32(buf, 16)
        aspect_x == rd16(buf, 38)
        aspect_y == rd16(buf, 40)
        square == aspect_x <= 0 \/ aspect_y <= 0
    IN  IF frame_count <= 0 \/ width <= 0 \/ height <= 0
        THEN [res |-> "Corrupted", hdr |-> None]
        ELSE [res |-> "Ok",
              hdr |-> [magic |-> magic, size |-> size, frame_count |-> frame_count,
                       w |-> width, h |-> height,
                       speed_msec |-> speed,
                       speed_jiffies |-> Min((speed * 70) \div 1000, U16_MAX),
                       created |-> rd32(buf, 22), creator |-> rd32(buf, 26),
                       updated |-> rd32(buf, 30), updater |-> rd32(buf, 34),
                       aspect_x |-> IF square THEN 1 ELSE aspect_x,
                       aspect_y |-> IF square THEN 1 ELSE aspect_y]]

\* read_flic_header: [res, hdr]
read_flic_header(file) ==
    IF Len(file) < SIZE_OF_FLIC_HEADER THEN [res |-> "Io", hdr |-> None]
    ELSE LET buf == Slice(file, 0, SIZE_OF_FLIC_HEADER)
             size == rd32(buf, 0)
             magic == rd16(buf, 4)
         IN  IF magic = FLIH_MAGIC THEN read_fli_header(buf, size, magic)
             ELSE IF magic = FLIHR_MAGIC THEN read_flc_header(buf, size, magic)
             ELSE [res |-> "BadMagic", hdr |-> None]

\* the size a chunk header of read_chunk_headers stands for
chunk_size2(hdr, size, magic) ==
    IF magic = FLI_COPY /\ size = hdr.w * hdr.h + 4 THEN hdr.w * hdr.h + 6 ELSE size

\* read_chunk_headers: [res, chunks]
RECURSIVE read_chunk_headers(_, _, _, _, _, _)
read_chunk_headers(file, hdr, offset, frame_size, num_chunks, chunks) ==
    IF num_chunks = 0 THEN [res |-> "Ok", chunks |-> chunks]
    ELSE IF offset + SIZE_OF_CHUNK > Len(file) THEN [res |-> "Io", chunks |-> chunks]
    ELSE LET size == rd32(file, offset)
             magic == rd16(file, offset + 4)
         IN  IF ~(SIZE_OF_CHUNK <= size /\ size <= frame_size)
             THEN [res |-> "Corrupted", chunks |-> chunks]
             ELSE read_chunk_headers(file, hdr, offset + size, frame_size, num_chunks - 1,
                     Append(chunks, [offset |-> offset + SIZE_OF_CHUNK,
                                     size |-> chunk_size2(hdr, size, magic) - SIZE_OF_CHUNK,
                                     magic |-> magic]))

\* one frame header of read_frame_headers at offset: [res, size, magic, num_chunks]
frame_header_at(file, hdr, offset) ==
    IF offset + SIZE_OF_FLIC_FRAME > Len(file)
    THEN [res |-> "Io", size |-> 0, magic |-> 0, num_chunks |-> 0]
    ELSE LET size == rd32(file, offset)
         IN  IF size < SIZE_OF_FLIC_FRAME \/ offset + size > hdr.size
             THEN [res |-> "Corrupted", size |-> size, magic |-> 0, num_chunks |-> 0]
             ELSE [res |-> "Ok", size |-> size, magic |-> rd16(file, offset + 4),
                   num_chunks |-> rd16(file, offset + 6)]

\* the loop of read_frame_headers from frame frame_num on: [res, frames]
RECURSIVE frame_headers_from(_, _, _, _, _)
frame_headers_from(file, hdr, frame_num, offset, frames) ==
    IF frame_num >= hdr.frame_count + 1 THEN [res |-> "Ok", frames |-> frames]
    ELSE Let(frame_header_at(file, hdr, offset), LAMBDA h0 :
         Let(h0.res = "Ok" /\ frame_num = 0 /\ h0.magic = FCID_PREFIX, LAMBDA prefix :
         Let(IF prefix THEN offset + h0.size ELSE offset, LAMBDA off1 :
         Let(IF prefix THEN frame_header_at(file, hdr, off1) ELSE h0, LAMBDA h1 :
             IF h1.res # "Ok" THEN [res |-> h1.res, frames |-> frames]
             ELSE IF h1.magic # FCID_FRAME THEN [res |-> "BadMagic", frames |-> frames]
             ELSE Let(read_chunk_headers(file, hdr, off1 + SIZE_OF_FLIC_FRAME,
                                         h1.size, h1.num_chunks, <<>>), LAMBDA c :
                      IF c.res # "Ok" THEN [res |-> c.res, frames |-> frames]
                      ELSE frame_headers_from(file, hdr, frame_num + 1, off1 + h1.size,
                                              Append(frames, [chunks |-> c.chunks])))))))

\* read_frame_headers: [res, frames]
read_frame_headers(file, hdr) ==
    frame_headers_from(file, hdr, 0, SIZE_OF_FLIC_HEADER, <<>>)

\* FlicFile::open on the bytes of a file: [res, flic]
FlicFile_open(file) ==
    Let(read_flic_header(file), LAMBDA h :
        IF h.res # "Ok" THEN [res |-> h.res, flic |-> None]
        ELSE Let(read_frame_headers(file, h.hdr), LAMBDA fr :
                 IF fr.res # "Ok" THEN [res |-> fr.res, flic |-> None]
                 ELSE [res |-> "Ok",
                       flic |-> [hdr |-> h.hdr, frame_hdr |-> fr.frames, frame |-> 0,
                                 file |-> file]]))

\* decode_fli_icolors: the palette in which every component of color c is c
decode_fli_icolors(d) == [i \in 1..PAL_LEN |-> (i - 1) \div 3]

\* a chunk_modifies_palette that knows the two color chunks only
chunk_modifies_palette_colors(magic) == magic = FLI_COLOR256 \/ magic = FLI_COLOR64

\* chunk_modifies_palette
chunk_modifies_palette(magic) ==
    magic = FLI_COLOR256 \/ magic = FLI_COLOR64 \/ magic = FLI_ICOLORS

\* decode_chunk: [res, buf, pal].  The legacy chunk types FLI_WRUN and
\* FLI_SBSRSC, which FlicFileWriter never writes, stop the model with the
\* result "Legacy".
decode_chunk(magic, buf, d) ==
    LET pix(r) == [res |-> r.res, buf |-> r.buf, pal |-> d.pal]
        col(r) == [res |-> r.res, buf |-> d.buf, pal |-> r.pal]
    IN  CASE magic = FLI_COLOR256 -> col(decode_fli_color256(buf, d))
          [] magic = FLI_SS2 -> pix(decode_fli_ss2(buf, d))
          [] magic = FLI_COLOR64 -> col(decode_fli_color64(buf, d))
          [] magic = FLI_LC -> pix(decode_fli_lc(buf, d))
          [] magic = FLI_BLACK -> [res |-> "Ok", buf |-> decode_fli_black(d), pal |-> d.pal]
          [] magic = FLI_BRUN -> pix(decode_fli_brun(buf, d))
          [] magic = FLI_COPY -> pix(decode_fli_copy(buf, d))
          [] magic = FLI_PSTAMP -> [res |-> "Ok", buf |-> d.buf, pal |-> d.pal]
          [] magic = FLI_ICOLORS ->
                [res |-> "Ok", buf |-> d.buf, pal |-> decode_fli_icolors(d)]
          [] magic \in {FLI_WRUN, FLI_SBSRSC} ->
                [res |-> "Legacy", buf |-> d.buf, pal |-> d.pal]
          [] OTHER -> [res |-> "BadMagic", buf |-> d.buf, pal |-> d.pal]

\* the chunk loop of read_next_frame from chunk i on:
\* [res, dst, palette_updated, decoded]; decoded counts the decode_chunk calls
RECURSIVE decode_chunks(_, _, _, _, _)
decode_chunks(file, chunks, i, d, palette_updated) ==
    IF i > Len(chunks)
    THEN [res |-> "Ok", dst |-> d, palette_updated |-> palette_updated, decoded |-> i - 1]
    ELSE LET chunk == chunks[i]
         IN  IF chunk.offset + chunk.size > Len(file)
             THEN [res |-> "Io", dst |-> d, palette_updated |-> palette_updated,
                   decoded |-> i - 1]
             ELSE Let(decode_chunk(chunk.magic,
                                   Slice(file, chunk.offset, chunk.offset + chunk.size), d),
                      LAMBDA r :
                  Let([d EXCEPT !.buf = r.buf, !.pal = r.pal], LAMBDA d1 :
                      IF r.res # "Ok"
                      THEN [res |-> r.res, dst |-> d1, palette_updated |-> palette_updated,
                            decoded |-> i]
                      ELSE decode_chunks(file, chunks, i + 1, d1,
                              palette_updated \/ chunk_modifies_palette(chunk.magic))))

\* a cursor that wraps to the first frame instead of the second
next_frame_to_first(frame, len) == IF frame + 1 >= len THEN 0 ELSE frame + 1

\* the cursor after read_next_frame decoded the frame at index frame
next_frame(frame, len) == IF frame + 1 >= len THEN 1 ELSE frame + 1

\* an ended flag raised one frame early
frame_ended_early(frame, len) == frame + 2 >= len

\* `ended: self.frame + 1 >= self.frame_hdr.len()`, on the new cursor
frame_ended(frame, len) == frame + 1 >= len

\* `looped: self.frame + 1 >= self.frame_hdr.len()`, on the cursor decoded
frame_looped(frame, len) == frame + 1 >= len

\* a read_next_frame that moves the cursor on also when a chunk fails
FlicFile_read_next_frame_skipping(flic, d) ==
    IF flic.hdr.w # d.w \/ flic.hdr.h # d.h
    THEN [res |-> "WrongResolution", flic |-> flic, dst |-> d,
          ended |-> FALSE, looped |-> FALSE, palette_updated |-> FALSE, decoded |-> 0]
    ELSE Let(Len(flic.frame_hdr), LAMBDA len :
         Let(decode_chunks(flic.file, At(flic.frame_hdr, flic.frame).chunks, 1, d, FALSE),
             LAMBDA r :
         Let(next_frame(flic.frame, len), LAMBDA frame1 :
             [res |-> r.res, flic |-> [flic EXCEPT !.frame = frame1], dst |-> r.dst,
              ended |-> r.res = "Ok" /\ frame_ended(frame1, len),
              looped |-> r.res = "Ok" /\ frame_looped(flic.frame, len),
              palette_updated |-> r.res = "Ok" /\ r.palette_updated,
              decoded |-> r.decoded])))

\* FlicFile::read_next_frame:
\* [res, flic, dst, ended, looped, palette_updated, decoded]
FlicFile_read_next_frame(flic, d) ==
    IF flic.hdr.w # d.w \/ flic.hdr.h # d.h
    THEN [res |-> "WrongResolution", flic |-> flic, dst |-> d,
          ended |-> FALSE, looped |-> FALSE, palette_updated |-> FALSE, decoded |-> 0]
    ELSE Let(Len(flic.frame_hdr), LAMBDA len :
         Let(decode_chunks(flic.file, At(flic.frame_hdr, flic.frame).chunks, 1, d, FALSE),
             LAMBDA r :
         Let(next_frame(flic.frame, len), LAMBDA frame1 :
             IF r.res # "Ok"
             THEN [res |-> r.res, flic |-> flic, dst |-> r.dst,
                   ended |-> FALSE, looped |-> FALSE, palette_updated |-> FALSE,
                   decoded |-> r.decoded]
             ELSE [res |-> "Ok", flic |-> [flic EXCEPT !.frame = frame1], dst |-> r.dst,
                   ended |-> frame_ended(frame1, len),
                   looped |-> frame_looped(flic.frame, len),
                   palette_updated |-> r.palette_updated, decoded |-> r.decoded])))

(***************************************************************************)
(* Rasters of the scenarios.  A raster is described by its geometry, its   *)
(* visible rows, the value of the buffer outside the view and a palette.   *)
(***************************************************************************)
\* the palettes the scenarios draw from: all black; a ramp whose
\* components are multiples of 4; a ramp whose components are not
PalOf(p) ==
    [i \in 1..PAL_LEN |->
        IF p = 0 THEN 0
        ELSE IF p = 1 THEN IF i <= 6 THEN 4 * i ELSE 0
        ELSE IF i <= 6 \/ i > PAL_LEN - 3 THEN 255 - (i % 7) ELSE 0]

\* Raster::new or Raster::with_offset over a buffer that holds rows in the
\* view and margin outside: "plain" is new(w, h), "offset" is
\* with_offset(1, 1, w, h, w + 2)
ViewOf(d) ==
    LET w == Len(d.rows[1])
        h == Len(d.rows)
        x == IF d.g = "plain" THEN 0 ELSE 1
        y == x
        stride == w + 2 * x
        buf == [i \in 1..(stride * (y + h)) |->
                  LET r == (i - 1) \div stride
                      c == (i - 1) % stride
                  IN  IF r >= y /\ c >= x /\ c < x + w THEN d.rows[r - y + 1][c - x + 1]
                      ELSE d.margin]
    IN  Raster_with_offset(x, y, w, h, stride, buf, PalOf(d.pal))

Geometries == {"plain", "offset"}

\* all rows of width w over Pix
RowsOver(w) == [1..w -> Pix]

(***************************************************************************)
(* Scenario SpecLC: encode_fli_lc on a pair of views, then decode_fli_lc   *)
(* of the bytes into a copy of prev.                                       *)
(***************************************************************************)
\* the pairs <<prev, next>>: prev is uniformly 0, next holds the row R in
\* the rows of M and 0 elsewhere; the margins differ from each other and
\* from the visible pixels of prev
LcInputs ==
    { <<[g |-> gp, rows |-> [r \in 1..LcH |-> [c \in 1..LcW |-> 0]], margin |-> 2, pal |-> 0],
        [g |-> gn, rows |-> [r \in 1..LcH |-> IF r \in M THEN R ELSE [c \in 1..LcW |-> 0]],
         margin |-> 1, pal |-> 0]>> :
        gp \in Geometries, gn \in Geometries, R \in RowsOver(LcW),
        M \in (SUBSET (1..LcH)) \ {{}} }

InitLC ==
    /\ pc = "lc_input"
    /\ \E inp \in LcInputs : argPrev = inp[1] /\ argNext = inp[2]
    /\ out = None
    /\ wr = None /\ wres = None /\ hist = <<>>
    /\ rd = None /\ dst = None /\ rres = None /\ calls = <<>>

\* encode_fli_lc(prev, next, w) on an empty writer
LcEncode ==
    /\ pc = "lc_input"
    /\ out' = [enc |-> encode_fli_lc(ViewOf(argPrev), ViewOf(argNext))]
    /\ pc' = "lc_encoded"
    /\ UNCHANGED <<wr, wres, hist, rd, dst, rres, calls, argPrev, argNext>>

\* decode_fli_lc(bytes, dst), dst being a copy of prev
LcDecode ==
    /\ pc = "lc_encoded"
    /\ out.enc.res = "Ok" /\ out.enc.size > 0
    /\ out' = [enc |-> out.enc, dec |-> decode_fli_lc(out.enc.bytes, ViewOf(argPrev))]
    /\ pc' = "lc_decoded"
    /\ UNCHANGED <<wr, wres, hist, rd, dst, rres, calls, argPrev, argNext>>

NextLC == LcEncode \/ LcDecode

SpecLC == InitLC /\ [][NextLC]_vars

\* C10: LC round trip.  Whenever encode_fli_lc(prev, next) returned a
\* non-zero size, decoding the bytes into a raster that holds prev's pixels
\* succeeds and leaves exactly next's visible pixels.
C10_LcRoundTrip ==
    pc = "lc_decoded" =>
        /\ out.dec.res = "Ok"
        /\ VisPixels([ViewOf(argPrev) EXCEPT !.buf = out.dec.buf]) = VisPixels(ViewOf(argNext))

\* the same round trip for the pairs whose views both start at buffer row 0
LcRoundTripRowZero ==
    (pc = "lc_decoded" /\ argPrev.g = "plain" /\ argNext.g = "plain") =>
        /\ out.dec.res = "Ok"
        /\ VisPixels([ViewOf(argPrev) EXCEPT !.buf = out.dec.buf]) = VisPixels(ViewOf(argNext))

(***************************************************************************)
(* Scenario SpecPix: write_pixel_data on an empty writer.                  *)
(***************************************************************************)
\* width and height of the rasters of the scenario
PixW == 5

PixH == 2

\* the triples <<flic_magic, prev, next>>: prev is None or uniformly 0,
\* next holds the row R in the rows of M and 0 elsewhere
PixInputs ==
    { <<m, p, [g |-> gn, rows |-> [r \in 1..PixH |-> IF r \in M THEN R
                                                      ELSE [c \in 1..PixW |-> 0]],
               margin |-> 1, pal |-> 0]>> :
        m \in {FLIH_MAGIC, FLIHR_MAGIC},
        p \in {None} \cup { [g |-> gp, rows |-> [r \in 1..PixH |-> [c \in 1..PixW |-> 0]],
                             margin |-> 2, pal |-> 0] : gp \in Geometries },
        gn \in Geometries, R \in RowsOver(PixW), M \in (SUBSET (1..PixH)) \ {{}} }

\* the raster of an optional description
OptView(d) == IF d = None THEN None ELSE ViewOf(d)

InitPix ==
    /\ pc = "pix_input"
    /\ \E inp \in PixInputs : wr = inp[1] /\ argPrev = inp[2] /\ argNext = inp[3]
    /\ out = None
    /\ wres = None /\ hist = <<>>
    /\ rd = None /\ dst = None /\ rres = None /\ calls = <<>>

\* write_pixel_data(flic_magic, prev, next, w) with w an empty cursor
PixWrite ==
    /\ pc = "pix_input"
    /\ out' = write_pixel_data(wr, OptView(argPrev), ViewOf(argNext),
                               [buf |-> <<>>, pos |-> 0])
    /\ pc' = "pix_done"
    /\ UNCHANGED <<wr, wres, hist, rd, dst, rres, calls, argPrev, argNext>>

NextPix == PixWrite

SpecPix == InitPix /\ [][NextPix]_vars

\* the body size of an encoding that succeeded
OkSize(enc) == IF enc.res = "Ok" THEN {enc.size} ELSE {}

\* the body sizes of the candidate encodings the waterfall allows for a
\* frame and that encode successfully
CandidateSizes(flic_magic, prev, next) ==
    (IF prev = None /\ (\A k \in 1..next.h : \A c \in 1..next.w :
                            VisRow(next, next.y + k - 1)[c] = 0)
     THEN {0} ELSE {})
    \cup (IF prev # None THEN OkSize(encode_fli_lc(prev, next)) ELSE {})
    \cup (IF prev # None /\ flic_magic = FLIHR_MAGIC
          THEN OkSize(encode_fli_ss2(prev, next)) ELSE {})
    \cup OkSize(encode_fli_brun(next))
    \cup OkSize(encode_fli_copy(next))

Fits(enc, next) == enc.res = "Ok" /\ enc.size < next.w * next.h

\* the end of the waterfall: BRUN when it fits, else COPY
FirstFitFull(next) ==
    Let(encode_fli_brun(next), LAMBDA brun :
        IF Fits(brun, next) THEN [magic |-> FLI_BRUN, body |-> brun.bytes]
        ELSE [magic |-> FLI_COPY, body |-> encode_fli_copy(next).bytes])

\* the waterfall with a prev: nothing when LC reports 0 bytes, LC when it
\* fits, else on FLC SS2 when it fits, else the end of the waterfall
FirstFitDelta(flic_magic, prev, next) ==
    Let(encode_fli_lc(prev, next), LAMBDA lc :
        IF lc.res = "Ok" /\ lc.size = 0 THEN [magic |-> 0, body |-> <<>>]
        ELSE IF Fits(lc, next) THEN [magic |-> FLI_LC, body |-> lc.bytes]
        ELSE IF flic_magic # FLIHR_MAGIC THEN FirstFitFull(next)
        ELSE Let(encode_fli_ss2(prev, next), LAMBDA ss2 :
                 IF Fits(ss2, next) THEN [magic |-> FLI_SS2, body |-> ss2.bytes]
                 ELSE FirstFitFull(next)))

\* the chunk the waterfall keeps, read off its order: BLACK for a first
\* frame whose buffer rows y..y+h-1 are 0 in every column of the stride;
\* else the first candidate that fits.  [magic, body]
FirstFit(flic_magic, prev, next) ==
    IF prev # None THEN FirstFitDelta(flic_magic, prev, next)
    ELSE IF \A i \in (next.stride * next.y + 1)..(next.stride * (next.y + next.h)) :
                next.buf[i] = 0
    THEN [magic |-> FLI_BLACK, body |-> <<>>]
    ELSE FirstFitFull(next)

\* the result out of write_pixel_data is the chunk ff on an empty writer
IsChunk(ff) ==
    /\ out.res = "Ok"
    /\ out.magic = ff.magic
    /\ out.f.pos = out.size
    /\ IF ff.magic = 0 THEN out.size = 0
       ELSE /\ out.size = SIZE_OF_CHUNK + Len(ff.body)
            /\ Slice(out.f.buf, 0, out.f.pos) = le32(out.size) \o le16(ff.magic) \o ff.body

MaxCalls == 2

\* a raster of the header's size: row k holds the colour k
FrameA == [g |-> "plain", rows |-> [r \in 1..FliH |-> [c \in 1..FliW |-> r % 3]],
           margin |-> 0, pal |-> 1]

\* an all-zero raster made by Raster::new
FrameZero == [g |-> "plain", rows |-> [r \in 1..FliH |-> [c \in 1..FliW |-> 0]],
              margin |-> 0, pal |-> 0]

\* an all-zero view into a buffer that is 1 outside the view
FrameZeroView == [g |-> "offset", rows |-> [r \in 1..FliH |-> [c \in 1..FliW |-> 0]],
                  margin |-> 1, pal |-> 0]

\* a raster one column wider than the header says
FrameWide == [g |-> "plain", rows |-> [r \in 1..FliH |-> [c \in 1..(FliW + 1) |-> 1]],
              margin |-> 0, pal |-> 0]

NextMenu == {FrameA, FrameZero, FrameZeroView, FrameWide}

\* the calls of a history that returned Ok
OkCalls(h) == {i \in 1..Len(h) : h[i].res = "Ok"}

\* the next raster of the last call that returned Ok, FrameA before any
LastWritten(h) ==
    IF OkCalls(h) = {} THEN FrameA
    ELSE h[CHOOSE i \in OkCalls(h) : \A j \in OkCalls(h) : j <= i].next

\* the prev arguments a call draws from
PrevMenu(h) == {None, LastWritten(h), FrameWide}

Init ==
    /\ pc = "start"
    /\ wr = None /\ wres = None /\ hist = <<>>
    /\ rd = None /\ dst = None /\ rres = None /\ calls = <<>>
    /\ argPrev = None /\ argNext = None /\ out = None

\* FlicFileWriter::create(filename, w, h, speed_msec)
CreateFlc ==
    /\ pc = "start"
    /\ wr' = FlicFileWriter_create(FliW, FliH, 70)
    /\ pc' = "writing"
    /\ UNCHANGED <<wres, hist, rd, dst, rres, calls, argPrev, argNext, out>>

\* FlicFileWriter::create_fli(filename, speed_jiffies)
CreateFli ==
    /\ pc = "start"
    /\ wr' = FlicFileWriter_create_fli(5)
    /\ pc' = "writing"
    /\ UNCHANGED <<wres, hist, rd, dst, rres, calls, argPrev, argNext, out>>

\* the state a write_next_frame call with result r leaves
AfterWrite(prev, next, r) ==
    /\ wr' = r.w
    /\ wres' = [op |-> "write", res |-> r.res]
    /\ hist' = Append(hist, [prev |-> prev, next |-> next, res |-> r.res,
                             fc |-> wr.hdr.frame_count,
                             pos0 |-> wr.file.pos, pos1 |-> r.w.file.pos])

\* flic.write_next_frame(prev, next)
WriteNextFrame ==
    /\ pc = "writing"
    /\ Len(hist) < MaxCalls
    /\ \E next \in NextMenu : \E prev \in PrevMenu(hist) :
            AfterWrite(prev, next,
                       FlicFileWriter_write_next_frame(wr, OptView(prev), ViewOf(next)))
    /\ UNCHANGED <<pc, rd, dst, rres, calls, argPrev, argNext, out>>

\* the state a close call with result r leaves
AfterClose(r) ==
    /\ wr' = r.w
    /\ wres' = [op |-> "close", res |-> r.res]

\* flic.close()
Close ==
    /\ pc = "writing"
    /\ AfterClose(FlicFileWriter_close(wr))
    /\ pc' = "closed"
    /\ UNCHANGED <<hist, rd, dst, rres, calls, argPrev, argNext, out>>

\* FlicFile::open(filename) on the file a successful close left
Open ==
    /\ pc = "closed"
    /\ wres.res = "Ok"
    /\ rd' = FlicFile_open(wr.file.buf)
    /\ pc' = "opened"
    /\ UNCHANGED <<wr, wres, hist, dst, rres, calls, argPrev, argNext, out>>

Next == CreateFlc \/ CreateFli \/ WriteNextFrame \/ Close \/ Open

Spec == Init /\ [][Next]_vars

(***************************************************************************)
(* What a run of Spec left in the file, read without the reader.           *)
(***************************************************************************)
\* the last write_next_frame call
LastCall == hist[Len(hist)]

\* a write_next_frame call was the last thing done and it returned Ok
Wrote == pc = "writing" /\ hist # <<>> /\ LastCall.res = "Ok"

\* the subordinate chunks of a frame: k chunks from offset off on, as
\* [magic, off, size]
RECURSIVE ChunksAt(_, _, _)
ChunksAt(buf, off, k) ==
    IF k = 0 THEN <<>>
    ELSE <<[magic |-> rd16(buf, off + 4), off |-> off, size |-> rd32(buf, off)]>>
            \o ChunksAt(buf, off + rd32(buf, off), k - 1)

\* the subordinate chunks of the frame that starts at pos0
FrameChunks(buf, pos0) == ChunksAt(buf, pos0 + SIZE_OF_FLIC_FRAME, rd16(buf, pos0 + 6))

\* the number of frame chunks that lie back to back from off to end, -1
\* when the bytes are not such a sequence
RECURSIVE FramesTo(_, _, _)
FramesTo(buf, off, end) ==
    IF off = end THEN 0
    ELSE IF off + SIZE_OF_FLIC_FRAME > end \/ rd16(buf, off + 4) # FCID_FRAME
            \/ rd32(buf, off) < SIZE_OF_FLIC_FRAME
    THEN -1
    ELSE Let(FramesTo(buf, off + rd32(buf, off), end), LAMBDA n :
             IF n < 0 THEN -1 ELSE n + 1)

\* every visible pixel of the raster is index 0
AllZero(r) == \A k \in 1..r.h : \A c \in 1..r.w : VisRow(r, r.y + k - 1)[c] = 0

\* no failed call left bytes of a partial frame behind
NoPartialFrame == \A i \in 1..Len(hist) : hist[i].res # "Ok" => hist[i].pos1 = hist[i].pos0

\* the 16 bytes of an empty frame
EmptyFrame == le32(16) \o le16(FCID_FRAME) \o le16(0) \o Fill(8, 0)

SizesFit(c) ==
    /\ Len(c.next.rows) = FliH /\ Len(c.next.rows[1]) = FliW
    /\ (c.fc = 0 \/ c.prev = None
            \/ (Len(c.prev.rows) = FliH /\ Len(c.prev.rows[1]) = FliW))

\* a call returned an error before this point
Failed == \E i \in 1..Len(hist) : hist[i].res # "Ok"

FirstFrameAlone(flic_magic, next) ==
    write_next_frame(flic_magic, 0, None, ViewOf(next),
                     [buf |-> Fill(SIZE_OF_FLIC_HEADER, 0), pos |-> SIZE_OF_FLIC_HEADER])

\* the chunk is a palette chunk in full form: one packet, skip 0, copy 256
FullPalette(buf, c) ==
    /\ c.magic \in {FLI_COLOR256, FLI_COLOR64}
    /\ c.size = SIZE_OF_CHUNK + 4 + PAL_LEN
    /\ Slice(buf, c.off + SIZE_OF_CHUNK, c.off + SIZE_OF_CHUNK + 4) = <<1, 0, 0, 0>>

\* C7: the first successful write_next_frame on a writer ignores prev: the
\* bytes written are those written for the same next with prev None, and
\* the frame holds a full palette chunk (one packet, skip 0, copy 256) and
\* a BLACK, BRUN or COPY pixel chunk, never LC or SS2.
C7_FirstFrameIgnoresPrev ==
    (Wrote /\ LastCall.fc = 0) =>
        Let(FirstFrameAlone(wr.hdr.magic, LastCall.next), LAMBDA alone :
        Let(FrameChunks(wr.file.buf, LastCall.pos0), LAMBDA cs :
            /\ alone.res = "Ok"
            /\ LastCall.pos0 = SIZE_OF_FLIC_HEADER
            /\ LastCall.pos1 = alone.f.pos
            /\ Slice(wr.file.buf, LastCall.pos0, LastCall.pos1)
                    = Slice(alone.f.buf, SIZE_OF_FLIC_HEADER, alone.f.pos)
            /\ Len(cs) >= 2
            /\ FullPalette(wr.file.buf, cs[Len(cs) - 1])
            /\ cs[Len(cs)].magic \in {FLI_BLACK, FLI_BRUN, FLI_COPY}
            /\ \A i \in 1..Len(cs) : cs[i].magic \notin {FLI_LC, FLI_SS2}))

\* C7 witness: a first frame written with a prev raster of the header's size
\* whose pixels differ from next's in a few places only
C7_Witness ==
    /\ Wrote
    /\ LastCall.fc = 0
    /\ LastCall.prev # None
    /\ LastCall.prev.g = "plain"
    /\ Len(LastCall.prev.rows[1]) = FliW
    /\ LastCall.prev.rows # LastCall.next.rows

\* palette chunk types
PaletteMagics == {FLI_COLOR256, FLI_COLOR64, FLI_ICOLORS}

\* C9: in a file written through create_fli every subordinate chunk is
\* COLOR64, BLACK, LC, BRUN or COPY; in a file written through create the
\* palette chunk is COLOR256 and a PSTAMP chunk appears only as the first
\* chunk of the first frame and only when that frame is not all index 0.
C9_ChunkTypes ==
    Wrote =>
        Let(FrameChunks(wr.file.buf, LastCall.pos0), LAMBDA cs :
            \A i \in 1..Len(cs) :
                IF wr.hdr.magic = FLIH_MAGIC
                THEN cs[i].magic \in {FLI_COLOR64, FLI_BLACK, FLI_LC, FLI_BRUN, FLI_COPY}
                ELSE /\ cs[i].magic \in PaletteMagics => cs[i].magic = FLI_COLOR256
                     /\ cs[i].magic = FLI_PSTAMP =>
                            /\ i = 1
                            /\ LastCall.fc = 0
                            /\ ~AllZero(ViewOf(LastCall.next)))

(***************************************************************************)
(* Scenario SpecFrame: one non-first frame.  write_next_frame (the free    *)
(* function) with frame_count 1 on a pair of rasters, and encode_fli_lc on *)
(* the same pair.                                                          *)
(***************************************************************************)
FrW == 2
FrH == 2

\* the palettes <<prev's, next's>> of a pair
FrPals == {<<0, 0>>, <<1, 1>>, <<0, 1>>}

\* the triples <<magic, prev, next>>: next holds the row R in the rows of M
\* and 0 elsewhere; prev holds next's pixels or 0 everywhere; the margins of
\* the two buffers differ
FrInputs ==
    { <<m,
        [g |-> gp, rows |-> [r \in 1..FrH |-> IF same /\ r \in M THEN R
                                               ELSE [c \in 1..FrW |-> 0]],
         margin |-> 2, pal |-> ps[1]],
        [g |-> gn, rows |-> [r \in 1..FrH |-> IF r \in M THEN R
                                               ELSE [c \in 1..FrW |-> 0]],
         margin |-> 1, pal |-> ps[2]]>> :
        m \in {FLIH_MAGIC, FLIHR_MAGIC}, gp \in Geometries, gn \in Geometries,
        same \in BOOLEAN, ps \in FrPals,
        R \in RowsOver(FrW), M \in (SUBSET (1..FrH)) \ {{}} }

InitFrame ==
    /\ pc = "fr_input"
    /\ \E inp \in FrInputs : wr = inp[1] /\ argPrev = inp[2] /\ argNext = inp[3]
    /\ out = None
    /\ wres = None /\ hist = <<>>
    /\ rd = None /\ dst = None /\ rres = None /\ calls = <<>>

\* write_next_frame(flic_magic, 1, Some(prev), next, w), w standing just
\* after the reserved file header
FrameWrite ==
    /\ pc = "fr_input"
    /\ out' = write_next_frame(wr, 1, ViewOf(argPrev), ViewOf(argNext),
                               [buf |-> Fill(SIZE_OF_FLIC_HEADER, 0),
                                pos |-> SIZE_OF_FLIC_HEADER])
    /\ pc' = "fr_written"
    /\ UNCHANGED <<wr, wres, hist, rd, dst, rres, calls, argPrev, argNext>>

\* encode_fli_lc(prev, next, w) on an empty writer
FrameEncodeLc ==
    /\ pc = "fr_input"
    /\ out' = encode_fli_lc(ViewOf(argPrev), ViewOf(argNext))
    /\ pc' = "fr_lc"
    /\ UNCHANGED <<wr, wres, hist, rd, dst, rres, calls, argPrev, argNext>>

NextFrame == FrameWrite \/ FrameEncodeLc

SpecFrame == InitFrame /\ [][NextFrame]_vars

\* the visible pixels of the two rasters are equal
SamePixels == VisPixels(ViewOf(argPrev)) = VisPixels(ViewOf(argNext))

\* C8: for a non-first frame whose visible pixels and palette in next equal
\* those in prev, write_next_frame emits only a 16-byte frame header with
\* size 16 and chunks 0 and leaves the position 16 bytes after the frame
\* start; and encode_fli_lc returns 0 only when every visible row of prev
\* equals the corresponding row of next.
C8_IdenticalFrame ==
    /\ (pc = "fr_written" /\ SamePixels /\ argPrev.pal = argNext.pal) =>
            /\ out.res = "Ok"
            /\ out.size = SIZE_OF_FLIC_FRAME
            /\ out.f.pos = SIZE_OF_FLIC_HEADER + SIZE_OF_FLIC_FRAME
            /\ Slice(out.f.buf, SIZE_OF_FLIC_HEADER, out.f.pos) = EmptyFrame
    /\ (pc = "fr_lc" /\ out.res = "Ok" /\ out.size = 0) => SamePixels

\* C8 witness: an identical frame written from two views whose buffers
\* differ outside the visible rectangle
C8_Witness ==
    /\ pc = "fr_written"
    /\ SamePixels
    /\ argPrev.pal = 1 /\ argNext.pal = 1
    /\ argPrev.g = "offset" /\ argNext.g = "offset"
    /\ \E r \in 1..FrH : \E c \in 1..FrW : argNext.rows[r][c] # 0
    /\ out.res = "Ok"
    /\ out.size = SIZE_OF_FLIC_FRAME

(***************************************************************************)
(* Scenario SpecRT: a whole file.  The frames f0..f(n-1) are written as    *)
(* recompress does, write_next_frame(None, f0), write_next_frame(f(k-1),   *)
(* f(k)), then the ring frame write_next_frame(f(n-1), f0); the file is    *)
(* closed, opened with FlicFile::open and read with read_next_frame.       *)
(***************************************************************************)
MaxFrames == 2
MaxReads == 5

\* a view that is 0 but for its bottom right pixel
FrameDot == [g |-> "offset",
             rows |-> [r \in 1..FliH |-> [c \in 1..FliW |->
                          IF r = FliH /\ c = FliW THEN 1 ELSE 0]],
             margin |-> 1, pal |-> 0]

\* a raster whose palette has components that are not multiples of 4
FrameB == [g |-> "plain", rows |-> [r \in 1..FliH |-> [c \in 1..FliW |-> (r + c) % 3]],
           margin |-> 0, pal |-> 2]

RtMenu == {FrameA, FrameZero, FrameZeroView, FrameDot, FrameB}

\* the sequences f0..f(n-1), 1 <= n <= MaxFrames
RtFrames == UNION { [1..n -> RtMenu] : n \in 1..MaxFrames }

\* the caller's raster before the first read
RtDst == ViewOf([g |-> "offset", rows |-> [r \in 1..FliH |-> [c \in 1..FliW |-> 2]],
                 margin |-> 2, pal |-> 1])

InitRT ==
    /\ pc = "rt_start"
    /\ argPrev \in {FLIH_MAGIC, FLIHR_MAGIC}
    /\ argNext \in RtFrames
    /\ wr = None /\ wres = None /\ hist = <<>>
    /\ rd = None /\ dst = None /\ rres = None /\ calls = <<>>
    /\ out = None

\* FlicFileWriter::create or FlicFileWriter::create_fli
RtCreate ==
    /\ pc = "rt_start"
    /\ wr' = IF argPrev = FLIH_MAGIC THEN FlicFileWriter_create_fli(5)
             ELSE FlicFileWriter_create(FliW, FliH, 70)
    /\ pc' = "rt_writing"
    /\ UNCHANGED <<wres, hist, rd, dst, rres, calls, argPrev, argNext, out>>

\* the prev and next of the k-th call (k from 0), the ring frame for k = n
RtPrev(k) == IF k = 0 THEN None ELSE argNext[k]

RtNext(k) == IF k = Len(argNext) THEN argNext[1] ELSE argNext[k + 1]

\* flic.write_next_frame(prev, next), the next call of the protocol
RtWrite ==
    /\ pc = "rt_writing"
    /\ Len(hist) <= Len(argNext)
    /\ hist # <<>> => wres.res = "Ok"
    /\ AfterWrite(RtPrev(Len(hist)), RtNext(Len(hist)),
                  FlicFileWriter_write_next_frame(wr, OptView(RtPrev(Len(hist))),
                                                  ViewOf(RtNext(Len(hist)))))
    /\ UNCHANGED <<pc, rd, dst, rres, calls, argPrev, argNext, out>>

\* flic.close() after the ring frame
RtClose ==
    /\ pc = "rt_writing"
    /\ Len(hist) = Len(argNext) + 1
    /\ wres.res = "Ok"
    /\ AfterClose(FlicFileWriter_close(wr))
    /\ pc' = "rt_closed"
    /\ UNCHANGED <<hist, rd, dst, rres, calls, argPrev, argNext, out>>

\* FlicFile::open(filename), and the caller's raster is made
RtOpen ==
    /\ pc = "rt_closed"
    /\ wres.res = "Ok"
    /\ rd' = FlicFile_open(wr.file.buf)
    /\ dst' = RtDst
    /\ pc' = "rt_opened"
    /\ UNCHANGED <<wr, wres, hist, rres, calls, argPrev, argNext, out>>

\* the state a read_next_frame call with result r leaves; a successful call
\* is recorded with the cursor before and after it
AfterRead(r) ==
    /\ rd' = [rd EXCEPT !.flic = r.flic]
    /\ rres' = [res |-> r.res, ended |-> r.ended, looped |-> r.looped,
                palette_updated |-> r.palette_updated]
    /\ calls' = IF r.res = "Ok"
                THEN Append(calls, [frame |-> rd.flic.frame, cursor |-> r.flic.frame,
                                    ended |-> r.ended, looped |-> r.looped])
                ELSE calls

\* flic.read_next_frame(&mut dst)
RtRead ==
    /\ pc = "rt_opened"
    /\ rd.res = "Ok"
    /\ Len(calls) < MaxReads
    /\ Let(FlicFile_read_next_frame(rd.flic, dst), LAMBDA r :
            AfterRead(r) /\ dst' = r.dst)
    /\ UNCHANGED <<pc, wr, wres, hist, argPrev, argNext, out>>

\* flic.read_next_frame(&mut other), other being one column too wide
RtReadWrongSize ==
    /\ pc = "rt_opened"
    /\ rd.res = "Ok"
    /\ Len(calls) < MaxReads
    /\ AfterRead(FlicFile_read_next_frame(rd.flic, ViewOf(FrameWide)))
    /\ UNCHANGED <<pc, dst, wr, wres, hist, argPrev, argNext, out>>

NextRT == RtCreate \/ RtWrite \/ RtClose \/ RtOpen \/ RtRead \/ RtReadWrongSize

SpecRT == InitRT /\ [][NextRT]_vars

\* the frame the caller's raster shows after c successful reads, c >= 1: f(c-1) and, after
\* the ring, f0
RtShown(c) == IF c = Len(argNext) + 1 THEN argNext[1] ELSE argNext[c]

\* C1: file round trip.  After the (k+1)-th read_next_frame call the
\* caller's raster holds the pixels and the palette of f(k), k = 0..n-1;
\* after the (n+1)-th call it holds f0 again and that call returned looped.
C1_FileRoundTrip ==
    /\ pc = "rt_opened" => rd.res = "Ok"
    /\ (pc = "rt_opened" /\ rres # None) => rres.res \in {"Ok", "WrongResolution"}
    /\ (pc = "rt_opened" /\ calls # <<>> /\ Len(calls) <= Len(argNext) + 1) =>
            /\ VisPixels(dst) = RtShown(Len(calls)).rows
            /\ dst.pal = PalOf(RtShown(Len(calls)).pal)
            /\ Len(calls) = Len(argNext) + 1 => calls[Len(calls)].looped

\* the frame count N of the opened file
RtN == rd.flic.hdr.frame_count

\* C2: whenever a successful read_next_frame call returned ended, the next
\* successful call returns looped.
C2_EndedThenLooped ==
    pc = "rt_opened" =>
        \A i \in 1..(Len(calls) - 1) : calls[i].ended => calls[i + 1].looped

\* C2 witness: two frames and a ring; a call that did not end, then one
\* that did, then one that looped
C2_Witness ==
    /\ pc = "rt_opened"
    /\ RtN = 2
    /\ Len(calls) >= 3
    /\ ~calls[1].ended /\ calls[2].ended /\ calls[3].looped

\* the frame index the i-th successful call decodes on a file with
\* frame count N: 0, 1, ..., N, 1, 2, ..., N, 1, ...
RtIndex(i, N) == IF i <= N + 1 THEN i - 1 ELSE ((i - 2) % N) + 1

\* C3: reader cursor protocol.  Successive successful calls decode the
\* frames 0, 1, ..., N, 1, 2, ..., N, 1, ...; the cursor stays in 0..N and
\* is 1 after the ring frame; looped is true exactly on the calls that
\* decoded the ring frame, ended exactly when the next call will decode it.
C3_CursorProtocol ==
    (pc = "rt_opened" /\ rd.res = "Ok") =>
        /\ RtN >= 1
        /\ Len(rd.flic.frame_hdr) = RtN + 1
        /\ rd.flic.frame \in 0..RtN
        /\ rd.flic.frame = RtIndex(Len(calls) + 1, RtN)
        /\ \A i \in 1..Len(calls) :
                /\ calls[i].frame = RtIndex(i, RtN)
                /\ calls[i].cursor = RtIndex(i + 1, RtN)
                /\ calls[i].frame = 0 <=> i = 1
                /\ calls[i].frame = RtN => calls[i].cursor = 1
                /\ calls[i].looped <=> calls[i].frame = RtN
                /\ calls[i].ended <=> RtIndex(i + 1, RtN) = RtN

\* C3 witness: two frames and a ring read through two cycles, the last call
\* having decoded the ring frame and wrapped the cursor to 1
C3_Witness ==
    /\ pc = "rt_opened"
    /\ RtN = 2
    /\ Len(calls) = MaxReads
    /\ calls[MaxReads].frame = 2
    /\ rres.res = "Ok"
    /\ rd.flic.frame = 1

(***************************************************************************)
(* Scenario SpecSS2: encode_fli_ss2 on a pair of views of even or odd      *)
(* width, then decode_fli_ss2 of the bytes into a copy of prev.            *)
(***************************************************************************)
Ss2W == 5
Ss2H == 2

\* the pairs <<prev, next>>: prev is uniformly 0, next holds the row R, of
\* width Ss2W - 1 or Ss2W, in the rows of M and 0 elsewhere
Ss2Inputs ==
    { <<[g |-> gs[1], rows |-> [r \in 1..Ss2H |-> [c \in 1..Len(R) |-> 0]],
         margin |-> 2, pal |-> 0],
        [g |-> gs[2], rows |-> [r \in 1..Ss2H |-> IF r \in M THEN R
                                                   ELSE [c \in 1..Len(R) |-> 0]],
         margin |-> 1, pal |-> 0]>> :
        gs \in {<<"plain", "plain">>, <<"offset", "offset">>, <<"offset", "plain">>},
        R \in RowsOver(Ss2W - 1) \cup RowsOver(Ss2W),
        M \in (SUBSET (1..Ss2H)) \ {{}} }

InitSS2 ==
    /\ pc = "ss2_input"
    /\ \E inp \in Ss2Inputs : argPrev = inp[1] /\ argNext = inp[2]
    /\ out = None
    /\ wr = None /\ wres = None /\ hist = <<>>
    /\ rd = None /\ dst = None /\ rres = None /\ calls = <<>>

\* encode_fli_ss2(prev, next, w) on an empty writer
Ss2Encode ==
    /\ pc = "ss2_input"
    /\ out' = [enc |-> encode_fli_ss2(ViewOf(argPrev), ViewOf(argNext))]
    /\ pc' = "ss2_encoded"
    /\ UNCHANGED <<wr, wres, hist, rd, dst, rres, calls, argPrev, argNext>>

\* decode_fli_ss2(bytes, dst), dst being a copy of prev
Ss2Decode ==
    /\ pc = "ss2_encoded"
    /\ out.enc.res = "Ok"
    /\ out' = [enc |-> out.enc, dec |-> decode_fli_ss2(out.enc.bytes, ViewOf(argPrev))]
    /\ pc' = "ss2_decoded"
    /\ UNCHANGED <<wr, wres, hist, rd, dst, rres, calls, argPrev, argNext>>

NextSS2 == Ss2Encode \/ Ss2Decode

SpecSS2 == InitSS2 /\ [][NextSS2]_vars

\* C11: SS2 round trip.  Whenever encode_fli_ss2(prev, next) returned Ok,
\* decoding the bytes into a raster that holds prev's pixels succeeds and
\* leaves exactly next's visible pixels.
C11_Ss2RoundTrip ==
    pc = "ss2_decoded" =>
        /\ out.dec.res = "Ok"
        /\ VisPixels([ViewOf(argPrev) EXCEPT !.buf = out.dec.buf]) = VisPixels(ViewOf(argNext))

\* C11 witness: in views of odd width with y > 0, the first row unchanged
\* and the second changed in its last byte only: a line-skip word, the
\* last-byte word and a packet count of 0
C11_Witness ==
    /\ pc = "ss2_decoded"
    /\ out.dec.res = "Ok"
    /\ argPrev.g = "offset" /\ argNext.g = "offset"
    /\ Len(argNext.rows[1]) % 2 = 1
    /\ out.enc.bytes = le16(1) \o <<255, 255>> \o <<1, 128>> \o le16(0)

(***************************************************************************)
(* Scenario SpecFull: the full-frame codecs.  encode_fli_brun or           *)
(* encode_fli_copy on a view, then the decoder on the bytes into a raster  *)
(* of the same width and height that holds other pixels.                   *)
(***************************************************************************)
FullW == 5
FullH == 2
LongW == 130

\* long rows: one value; a run that ends in a change
LongRows ==
    { [c \in 1..LongW |-> 1],
      [c \in 1..LongW |-> IF c < LongW THEN 2 ELSE 1] }

\* the pairs <<dst, next>>: next holds the row R in the rows of M and 0
\* elsewhere, or a long row above a row of one value; dst is the raster
\* decoded into, filled with 2
FullInputs ==
    { <<[g |-> gs[1], rows |-> [r \in 1..FullH |-> [c \in 1..Len(R) |-> 2]],
         margin |-> 2, pal |-> 0],
        [g |-> gs[2], rows |-> [r \in 1..FullH |-> IF r \in M THEN R
                                                    ELSE [c \in 1..Len(R) |-> 0]],
         margin |-> 1, pal |-> 0]>> :
        gs \in {<<"plain", "plain">>, <<"offset", "offset">>, <<"offset", "plain">>},
        R \in RowsOver(FullW) \cup LongRows,
        M \in (SUBSET (1..FullH)) \ {{}} }

InitFull ==
    /\ pc = "full_input"
    /\ \E inp \in FullInputs : argPrev = inp[1] /\ argNext = inp[2]
    /\ out = None
    /\ wr = None /\ wres = None /\ hist = <<>>
    /\ rd = None /\ dst = None /\ rres = None /\ calls = <<>>

\* encode_fli_brun(next, w) on an empty writer
FullEncodeBrun ==
    /\ pc = "full_input"
    /\ out' = [enc |-> encode_fli_brun(ViewOf(argNext))]
    /\ pc' = "brun_encoded"
    /\ UNCHANGED <<wr, wres, hist, rd, dst, rres, calls, argPrev, argNext>>

\* decode_fli_brun(bytes, dst)
FullDecodeBrun ==
    /\ pc = "brun_encoded"
    /\ out.enc.res = "Ok"
    /\ out' = [enc |-> out.enc, dec |-> decode_fli_brun(out.enc.bytes, ViewOf(argPrev))]
    /\ pc' = "brun_decoded"
    /\ UNCHANGED <<wr, wres, hist, rd, dst, rres, calls, argPrev, argNext>>

\* encode_fli_copy(next, w) on an empty writer
FullEncodeCopy ==
    /\ pc = "full_input"
    /\ out' = [enc |-> encode_fli_copy(ViewOf(argNext))]
    /\ pc' = "copy_encoded"
    /\ UNCHANGED <<wr, wres, hist, rd, dst, rres, calls, argPrev, argNext>>

\* decode_fli_copy(bytes, dst)
FullDecodeCopy ==
    /\ pc = "copy_encoded"
    /\ out.enc.res = "Ok"
    /\ out' = [enc |-> out.enc, dec |-> decode_fli_copy(out.enc.bytes, ViewOf(argPrev))]
    /\ pc' = "copy_decoded"
    /\ UNCHANGED <<wr, wres, hist, rd, dst, rres, calls, argPrev, argNext>>

NextFull == FullEncodeBrun \/ FullDecodeBrun \/ FullEncodeCopy \/ FullDecodeCopy

SpecFull == InitFull /\ [][NextFull]_vars

\* the visible pixels of the raster decoded into, after the decoder
Decoded == VisPixels([ViewOf(argPrev) EXCEPT !.buf = out.dec.buf])

\* C12: full-frame round trip.  Whenever encode_fli_brun(next) returned Ok,
\* decode_fli_brun of the bytes into a raster of the same size with other
\* contents succeeds and leaves exactly next's visible pixels; the same for
\* encode_fli_copy and decode_fli_copy.
C12_FullRoundTrip ==
    pc \in {"brun_decoded", "copy_decoded"} =>
        /\ out.dec.res = "Ok"
        /\ Decoded = VisPixels(ViewOf(argNext))

\* C12 witness: a long row of one value, written as a run packet of 127
\* and one of the rest, decoded into a view with y > 0
C12_Witness ==
    /\ pc = "brun_decoded"
    /\ out.dec.res = "Ok"
    /\ argPrev.g = "offset"
    /\ Len(argNext.rows[1]) = LongW
    /\ Slice(out.enc.bytes, 0, 5) = <<2, 127, 1, LongW - 127, 1>>
    /\ Decoded = VisPixels(ViewOf(argNext))

(***************************************************************************)
(* Scenario SpecPal: the palette encoders on a pair of palettes, then the  *)
(* matching decoder over prev's palette.                                   *)
(***************************************************************************)
\* the palette entries a pair may differ in: the first ones, one after a
\* gap, and the last two
ChangeMenu == {0, 1, 3, 254, 255}

\* the palette pal with the entries in S changed: in all three components
\* (to 253, 7, 255) or in the last component only (by one, wrapping)
PalChanged(pal, S, how) ==
    [i \in 1..PAL_LEN |->
        IF (i - 1) \div 3 \notin S THEN pal[i]
        ELSE IF how = "triple" THEN <<253, 7, 255>>[((i - 1) % 3) + 1]
        ELSE IF (i - 1) % 3 = 2 THEN (pal[i] + 1) % (U8_MAX + 1)
        ELSE pal[i]]

\* the pairs <<prev, next>> of rasters, of which only the palettes matter
PalInputs ==
    { <<[pal |-> PalOf(b)], [pal |-> PalChanged(PalOf(b), S, how)]>> :
        b \in {0, 2},
        S \in (SUBSET ChangeMenu) \cup {0..(PAL_LEN \div 3 - 1)},
        how \in {"triple", "one"} }

\* the writer the encoders are given: two bytes in, at the end
PalWriter == [buf |-> <<7, 7>>, pos |-> 2]

InitPal ==
    /\ pc = "pal_input"
    /\ \E inp \in PalInputs : argPrev = inp[1] /\ argNext = inp[2]
    /\ out = None
    /\ wr = None /\ wres = None /\ hist = <<>>
    /\ rd = None /\ dst = None /\ rres = None /\ calls = <<>>

\* the record of an encoder call: its result and the writer after it
PalEncoded(magic, prev, enc) ==
    [magic |-> magic, delta |-> prev # None, enc |-> enc, w |-> W_emit(PalWriter, enc)]

\* encode_fli_color256(Some(prev), next, w)
PalEncode256 ==
    /\ pc = "pal_input"
    /\ out' = PalEncoded(FLI_COLOR256, argPrev, encode_fli_color256(argPrev, argNext))
    /\ pc' = "pal_encoded"
    /\ UNCHANGED <<wr, wres, hist, rd, dst, rres, calls, argPrev, argNext>>

\* encode_fli_color256(None, next, w)
PalEncodeFull256 ==
    /\ pc = "pal_input"
    /\ out' = PalEncoded(FLI_COLOR256, None, encode_fli_color256(None, argNext))
    /\ pc' = "pal_encoded"
    /\ UNCHANGED <<wr, wres, hist, rd, dst, rres, calls, argPrev, argNext>>

\* encode_fli_color64(Some(prev), next, w)
PalEncode64 ==
    /\ pc = "pal_input"
    /\ out' = PalEncoded(FLI_COLOR64, argPrev, encode_fli_color64(argPrev, argNext))
    /\ pc' = "pal_encoded"
    /\ UNCHANGED <<wr, wres, hist, rd, dst, rres, calls, argPrev, argNext>>

\* encode_fli_color64(None, next, w)
PalEncodeFull64 ==
    /\ pc = "pal_input"
    /\ out' = PalEncoded(FLI_COLOR64, None, encode_fli_color64(None, argNext))
    /\ pc' = "pal_encoded"
    /\ UNCHANGED <<wr, wres, hist, rd, dst, rres, calls, argPrev, argNext>>

\* decode_fli_color256(bytes, dst) over a raster that holds prev's palette
PalDecode256 ==
    /\ pc = "pal_encoded"
    /\ out.magic = FLI_COLOR256
    /\ out.enc.res = "Ok" /\ out.enc.size > 0
    /\ out' = [magic |-> out.magic, delta |-> out.delta, enc |-> out.enc, w |-> out.w,
               dec |-> decode_fli_color256(out.enc.bytes, argPrev)]
    /\ pc' = "pal_decoded"
    /\ UNCHANGED <<wr, wres, hist, rd, dst, rres, calls, argPrev, argNext>>

\* decode_fli_color64(bytes, dst) over a raster that holds prev's palette
PalDecode64 ==
    /\ pc = "pal_encoded"
    /\ out.magic = FLI_COLOR64
    /\ out.enc.res = "Ok" /\ out.enc.size > 0
    /\ out' = [magic |-> out.magic, delta |-> out.delta, enc |-> out.enc, w |-> out.w,
               dec |-> decode_fli_color64(out.enc.bytes, argPrev)]
    /\ pc' = "pal_decoded"
    /\ UNCHANGED <<wr, wres, hist, rd, dst, rres, calls, argPrev, argNext>>

NextPal ==
    \/ PalEncode256 \/ PalEncodeFull256 \/ PalEncode64 \/ PalEncodeFull64
    \/ PalDecode256 \/ PalDecode64

SpecPal == InitPal /\ [][NextPal]_vars

\* the entries in which two palettes differ
PalDiff(p, q) == {c \in 0..(PAL_LEN \div 3 - 1) : PalEntry(p, c) # PalEntry(q, c)}

\* the maximal runs of a set of entries: [start, n]
PalRuns(S) ==
    { [start |-> a, n |-> CHOOSE n \in 1..(PAL_LEN \div 3) :
                            /\ \A k \in 0..(n - 1) : a + k \in S
                            /\ a + n \notin S] :
        a \in {c \in S : c - 1 \notin S} }

\* the packets of a palette chunk as <<skip, copy>> read from offset r on,
\* turned into the runs they address: [start, n]
RECURSIVE PalPacketRuns(_, _, _, _)
PalPacketRuns(src, r, idx, count) ==
    IF count = 0 THEN {}
    ELSE LET nskip == At(src, r)
             ncopy == IF At(src, r + 1) = 0 THEN 256 ELSE At(src, r + 1)
         IN  {[start |-> idx + nskip, n |-> ncopy]}
                \cup PalPacketRuns(src, r + 2 + 3 * ncopy, idx + nskip + ncopy, count - 1)

\* C13: encode_fli_color256(Some(prev), next) succeeds on 256-entry palettes;
\* it returns 0 and leaves the writer where the call started exactly when
\* the palettes are equal; otherwise the count written is the number of
\* maximal runs of changed entries, the packets address exactly those runs
\* (each skip is the number of unchanged entries since the previous packet),
\* and decode_fli_color256 over prev's palette gives next's palette.
C13_Color256Delta ==
    (pc \in {"pal_encoded", "pal_decoded"} /\ out.magic = FLI_COLOR256 /\ out.delta) =>
        /\ out.enc.res = "Ok"
        /\ (out.enc.size = 0) <=> (argPrev.pal = argNext.pal)
        /\ out.enc.size = 0 => out.w.pos = PalWriter.pos
        /\ out.enc.size > 0 =>
            /\ out.w.pos = PalWriter.pos + out.enc.size
            /\ Len(out.enc.bytes) = out.enc.size
            /\ rd16(out.enc.bytes, 0) = Cardinality(PalRuns(PalDiff(argPrev.pal, argNext.pal)))
            /\ PalPacketRuns(out.enc.bytes, 2, 0, rd16(out.enc.bytes, 0))
                   = PalRuns(PalDiff(argPrev.pal, argNext.pal))
        /\ pc = "pal_decoded" => out.dec.res = "Ok" /\ out.dec.pal = argNext.pal

\* C13 witness: entries 0, 1 and 255 changed: two packets, the second after
\* a skip of 253 entries, decoded back to next's palette
C13_Witness ==
    /\ pc = "pal_decoded" /\ out.magic = FLI_COLOR256 /\ out.delta
    /\ PalDiff(argPrev.pal, argNext.pal) = {0, 1, 255}
    /\ Slice(out.enc.bytes, 0, 4) = le16(2) \o <<0, 2>>
    /\ Slice(out.enc.bytes, 10, 12) = <<253, 1>>
    /\ out.enc.size = 16
    /\ out.dec.pal = argNext.pal /\ out.dec.pal # argPrev.pal

\* whether a COLOR64 chunk carries component i: all of them in the full
\* form, those of the changed entries in the delta form
Carried64(i) ==
    out.delta => PalEntry(argPrev.pal, (i - 1) \div 3) # PalEntry(argNext.pal, (i - 1) \div 3)

\* C14: decode_fli_color64 of the output of encode_fli_color64, full or
\* delta, never reports Corrupted; every component p the chunk carries comes
\* back as 4 * floor(p / 4), less than 4 away from p, and in the delta form
\* the other components keep prev's value.
C14_Color64RoundTrip ==
    (pc = "pal_decoded" /\ out.magic = FLI_COLOR64) =>
        /\ out.dec.res = "Ok"
        /\ \A i \in 1..PAL_LEN :
            IF Carried64(i)
            THEN /\ out.dec.pal[i] = 4 * (argNext.pal[i] \div 4)
                 /\ argNext.pal[i] - out.dec.pal[i] \in 0..3
            ELSE out.dec.pal[i] = argPrev.pal[i]

\* C14 witness: a delta chunk that carries the components 253, 7 and 255 of
\* entry 3, which come back as 252, 4 and 252
C14_Witness ==
    /\ pc = "pal_decoded" /\ out.magic = FLI_COLOR64 /\ out.delta
    /\ out.dec.res = "Ok"
    /\ PalDiff(argPrev.pal, argNext.pal) = {3}
    /\ PalEntry(argNext.pal, 3) = <<253, 7, 255>>
    /\ out.enc.bytes = le16(1) \o <<3, 1>> \o <<63, 1, 63>> \o <<0>>
    /\ PalEntry(out.dec.pal, 3) = <<252, 4, 252>>

(***************************************************************************)
(* Scenario SpecEven: each encoder that pads, on rasters of every width    *)
(* and height up to a bound, and on pairs of palettes.                     *)
(***************************************************************************)
EvW == 3

EvH == 2

\* the pairs <<prev, next>>: prev is absent or uniformly 0, next holds the
\* row R in the rows M; and 1 x 1 rasters that differ in their palettes only
EvenInputs ==
    UNION { { <<[g |-> g, rows |-> [r \in 1..h |-> [c \in 1..w |-> 0]], margin |-> 2, pal |-> 0],
                [g |-> g, rows |-> [r \in 1..h |-> IF r \in M THEN R ELSE [c \in 1..w |-> 0]],
                 margin |-> 1, pal |-> 0]>> :
                g \in Geometries, R \in RowsOver(w), M \in SUBSET (1..h) } :
            w \in 1..EvW, h \in 1..EvH }
    \cup
    { <<[g |-> "plain", rows |-> <<<<0>>>>, margin |-> 0, pal |-> pp],
        [g |-> "plain", rows |-> <<<<0>>>>, margin |-> 0, pal |-> pn]>> :
        pp \in {0, 1, 2}, pn \in {0, 1, 2} }

InitEven ==
    /\ pc = "even_input"
    /\ \E inp \in EvenInputs : argPrev = inp[1] /\ argNext = inp[2]
    /\ out = None
    /\ wr = None /\ wres = None /\ hist = <<>>
    /\ rd = None /\ dst = None /\ rres = None /\ calls = <<>>

\* the record of an encoder call on the writer PalWriter
EvenEncoded(op, enc) == [op |-> op, enc |-> enc, w |-> W_emit(PalWriter, enc)]

\* encode_fli_brun(next, w)
EvenEncodeBrun ==
    /\ pc = "even_input"
    /\ out' = EvenEncoded("brun", encode_fli_brun(ViewOf(argNext)))
    /\ pc' = "even_encoded"
    /\ UNCHANGED <<wr, wres, hist, rd, dst, rres, calls, argPrev, argNext>>

\* encode_fli_lc(prev, next, w)
EvenEncodeLc ==
    /\ pc = "even_input"
    /\ out' = EvenEncoded("lc", encode_fli_lc(ViewOf(argPrev), ViewOf(argNext)))
    /\ pc' = "even_encoded"
    /\ UNCHANGED <<wr, wres, hist, rd, dst, rres, calls, argPrev, argNext>>

\* encode_fli_ss2(prev, next, w)
EvenEncodeSs2 ==
    /\ pc = "even_input"
    /\ out' = EvenEncoded("ss2", encode_fli_ss2(ViewOf(argPrev), ViewOf(argNext)))
    /\ pc' = "even_encoded"
    /\ UNCHANGED <<wr, wres, hist, rd, dst, rres, calls, argPrev, argNext>>

\* encode_fli_color64(prev, next, w), with and without prev
EvenEncodeColor64 ==
    /\ pc = "even_input"
    /\ \E p \in {None, ViewOf(argPrev)} :
            out' = EvenEncoded("color64", encode_fli_color64(p, ViewOf(argNext)))
    /\ pc' = "even_encoded"
    /\ UNCHANGED <<wr, wres, hist, rd, dst, rres, calls, argPrev, argNext>>

\* encode_fli_color256(prev, next, w), with and without prev
EvenEncodeColor256 ==
    /\ pc = "even_input"
    /\ \E p \in {None, ViewOf(argPrev)} :
            out' = EvenEncoded("color256", encode_fli_color256(p, ViewOf(argNext)))
    /\ pc' = "even_encoded"
    /\ UNCHANGED <<wr, wres, hist, rd, dst, rres, calls, argPrev, argNext>>

NextEven ==
    \/ EvenEncodeBrun \/ EvenEncodeLc \/ EvenEncodeSs2
    \/ EvenEncodeColor64 \/ EvenEncodeColor256

SpecEven == InitEven /\ [][NextEven]_vars

\* C15: whenever encode_fli_brun, encode_fli_lc, encode_fli_ss2,
\* encode_fli_color64 or encode_fli_color256 succeeds, the size it returns
\* is even and is the distance the writer has advanced, and a non-zero size
\* is the number of bytes written.
C15_EvenSizes ==
    (pc = "even_encoded" /\ out.enc.res = "Ok") =>
        /\ out.enc.size % 2 = 0
        /\ out.w.pos = PalWriter.pos + out.enc.size
        /\ out.enc.size > 0 => Len(out.enc.bytes) = out.enc.size

\* C15 witness: a 3 x 1 raster of one value, whose BRUN form of a count and
\* one run packet takes a pad byte
C15_Witness ==
    /\ pc = "even_encoded" /\ out.op = "brun" /\ out.enc.res = "Ok"
    /\ Len(argNext.rows) = 1 /\ Len(argNext.rows[1]) = 3
    /\ out.enc.bytes = <<1, 3, argNext.rows[1][1], 0>>
    /\ out.enc.size = 4

(***************************************************************************)
(* Scenario SpecCopy: encode_fli_copy, and write_pixel_data, on rasters of *)
(* every width and height up to the bounds of SpecEven.                    *)
(***************************************************************************)
InitCopy ==
    /\ pc = "copy_input"
    /\ \E inp \in EvenInputs : argPrev = inp[1] /\ argNext = inp[2]
    /\ out = None
    /\ wr = None /\ wres = None /\ hist = <<>>
    /\ rd = None /\ dst = None /\ rres = None /\ calls = <<>>

\* encode_fli_copy(next, w) on an empty writer
CopyEncode ==
    /\ pc = "copy_input"
    /\ out' = [op |-> "encode", enc |-> encode_fli_copy(ViewOf(argNext))]
    /\ pc' = "copy_done"
    /\ UNCHANGED <<wr, wres, hist, rd, dst, rres, calls, argPrev, argNext>>

\* write_pixel_data(flic_magic, prev, next, w) on an empty writer, with and
\* without prev
CopyWritePixels ==
    /\ pc = "copy_input"
    /\ \E m \in {FLIH_MAGIC, FLIHR_MAGIC} : \E p \in {None, ViewOf(argPrev)} :
            out' = [op |-> "pixels",
                    r |-> write_pixel_data(m, p, ViewOf(argNext), [buf |-> <<>>, pos |-> 0])]
    /\ pc' = "copy_done"
    /\ UNCHANGED <<wr, wres, hist, rd, dst, rres, calls, argPrev, argNext>>

NextCopy == CopyEncode \/ CopyWritePixels

SpecCopy == InitCopy /\ [][NextCopy]_vars

\* whether write_pixel_data kept a chunk of type FLI_COPY
FellBackToCopy == pc = "copy_done" /\ out.op = "pixels" /\ out.r.res = "Ok" /\ out.r.magic = FLI_COPY

\* the number of visible pixels of next
CopyPixels == Len(argNext.rows) * Len(argNext.rows[1])

\* C16 as stated: the number of bytes encode_fli_copy writes and returns is
\* even for every raster, and a pixel chunk that fell back to COPY has an
\* even size field.
C16_CopyEven ==
    /\ (pc = "copy_done" /\ out.op = "encode") =>
            out.enc.size % 2 = 0 /\ Len(out.enc.bytes) % 2 = 0
    /\ FellBackToCopy => rd32(out.r.f.buf, 0) % 2 = 0

\* C16 as the code has it: encode_fli_copy writes the w * h visible pixels row
\* by row and nothing else, and returns w * h; a pixel chunk that fell back to
\* COPY has the size field 6 + w * h, which is odd when w * h is.
C16_CopyExact ==
    /\ (pc = "copy_done" /\ out.op = "encode") =>
        /\ out.enc.res = "Ok"
        /\ out.enc.size = CopyPixels
        /\ Len(out.enc.bytes) = CopyPixels
        /\ \A k \in 1..CopyPixels :
              out.enc.bytes[k] = argNext.rows[((k - 1) \div Len(argNext.rows[1])) + 1]
                                              [((k - 1) % Len(argNext.rows[1])) + 1]
    /\ FellBackToCopy =>
        /\ out.r.size = SIZE_OF_CHUNK + CopyPixels
        /\ rd32(out.r.f.buf, 0) = SIZE_OF_CHUNK + CopyPixels
        /\ rd16(out.r.f.buf, 4) = FLI_COPY
        /\ out.r.f.pos = SIZE_OF_CHUNK + CopyPixels

\* C16 witness: a first frame of 1 x 1 with a non-zero pixel, kept as a COPY
\* chunk of 7 bytes
C16_Witness ==
    /\ FellBackToCopy
    /\ CopyPixels = 1 /\ argNext.rows[1][1] # 0
    /\ out.r.size = 7
    /\ Slice(out.r.f.buf, 0, out.r.f.pos) = le32(7) \o le16(FLI_COPY) \o <<argNext.rows[1][1]>>

(***************************************************************************)
(* Scenario SpecBlack: can_encode_fli_black on views of every width and    *)
(* height up to the bounds of SpecEven; the views made by with_offset have *)
(* non-zero pixels outside the visible rectangle.                          *)
(***************************************************************************)
InitBlack ==
    /\ pc = "black_input"
    /\ \E inp \in EvenInputs : argPrev = inp[1] /\ argNext = inp[2]
    /\ out = None
    /\ wr = None /\ wres = None /\ hist = <<>>
    /\ rd = None /\ dst = None /\ rres = None /\ calls = <<>>

\* can_encode_fli_black(next)
BlackCheck ==
    /\ pc = "black_input"
    /\ out' = [can |-> can_encode_fli_black(ViewOf(argNext))]
    /\ pc' = "black_done"
    /\ UNCHANGED <<wr, wres, hist, rd, dst, rres, calls, argPrev, argNext>>

NextBlack == BlackCheck

SpecBlack == InitBlack /\ [][NextBlack]_vars

\* C17: can_encode_fli_black(next) is true exactly when every pixel of
\* next's visible rectangle is 0, whatever the buffer holds outside it.
C17_BlackIffVisibleZero ==
    pc = "black_done" =>
        (out.can <=> \A r \in 1..Len(argNext.rows) :
                        \A c \in 1..Len(argNext.rows[r]) : argNext.rows[r][c] = 0)

(***************************************************************************)
(* Scenario SpecStamp: get_pstamp_size on small sizes and on a large one.   *)
(***************************************************************************)
StampMax == 5

\* a large 16-bit size whose products with itself fit the model checker's
\* integers
StampBig == 32767

\* the values of max_w, max_h, w and h
StampDims == (1..StampMax) \cup {StampBig}

InitStamp ==
    /\ pc = "stamp_input"
    /\ argPrev = None
    /\ \E mw \in StampDims, mh \in StampDims, w \in StampDims, h \in StampDims :
            argNext = [max_w |-> mw, max_h |-> mh, w |-> w, h |-> h]
    /\ out = None
    /\ wr = None /\ wres = None /\ hist = <<>>
    /\ rd = None /\ dst = None /\ rres = None /\ calls = <<>>

\* get_pstamp_size(max_w, max_h, w, h)
StampSize ==
    /\ pc = "stamp_input"
    /\ out' = get_pstamp_size(argNext.max_w, argNext.max_h, argNext.w, argNext.h)
    /\ pc' = "stamp_done"
    /\ UNCHANGED <<wr, wres, hist, rd, dst, rres, calls, argPrev, argNext>>

NextStamp == StampSize

SpecStamp == InitStamp /\ [][NextStamp]_vars

\* C18 as stated: the result (sw, sh) has 1 <= sw <= max_w, 1 <= sh <= max_h,
\* sw * h <= sh * w + h and sh * w <= sw * h + w.
C18_StampBounds ==
    pc = "stamp_done" =>
        /\ 1 <= out[1] /\ out[1] <= argNext.max_w
        /\ 1 <= out[2] /\ out[2] <= argNext.max_h
        /\ out[1] * argNext.h <= out[2] * argNext.w + argNext.h
        /\ out[2] * argNext.w <= out[1] * argNext.h + argNext.w

\* C18 as the code has it: the result (sw, sh) has 1 <= sw <= max_w,
\* 1 <= sh <= max_h, one of the two at its maximum, and sw * h and sh * w
\* less than max(w, h) apart.
C18_StampFit ==
    pc = "stamp_done" =>
        /\ 1 <= out[1] /\ out[1] <= argNext.max_w
        /\ 1 <= out[2] /\ out[2] <= argNext.max_h
        /\ out[1] = argNext.max_w \/ out[2] = argNext.max_h
        /\ out[1] * argNext.h < out[2] * argNext.w + Max(argNext.w, argNext.h)
        /\ out[2] * argNext.w < out[1] * argNext.h + Max(argNext.w, argNext.h)

\* C18 witness: a 2 x 5 image in a 5 x 4 box gets the stamp 1 x 4, for which
\* sh * w = 8 and sw * h + w = 7
C18_Witness ==
    /\ pc = "stamp_done"
    /\ argNext = [max_w |-> 5, max_h |-> 4, w |-> 2, h |-> 5]
    /\ out = <<1, 4>>

(***************************************************************************)
(* Scenario SpecScale: a LinScale iterator driven to its end, one call of  *)
(* next per step.                                                          *)
(***************************************************************************)
ScaleMax == 6

\* the largest destination width for which dx * sw + sw / 2 with sw = USIZE_MAX
\* stays within the integers of the model checker; with a usize of 16 bits it
\* is above half the machine word
ScaleWide == (2147483647 - USIZE_MAX \div 2) \div USIZE_MAX + 1

\* the pairs <<sw, dw>>: small ones, source widths at the top of the machine
\* word, and one wide destination
ScaleInputs ==
    ((1..ScaleMax) \cup {USIZE_MAX - (USIZE_MAX \div 3), USIZE_MAX - 1, USIZE_MAX})
        \X (1..ScaleMax)
    \cup {<<USIZE_MAX, ScaleWide>>}

InitScale ==
    /\ pc = "scale_input"
    /\ argPrev = None
    /\ \E inp \in ScaleInputs : argNext = [sw |-> inp[1], dw |-> inp[2]]
    /\ out = None
    /\ wr = None /\ wres = None /\ hist = <<>>
    /\ rd = None /\ dst = None /\ rres = None /\ calls = <<>>

\* LinScale::new(sw, dw)
ScaleNew ==
    /\ pc = "scale_input"
    /\ out' = [it |-> LinScale_new(argNext.sw, argNext.dw), n |-> 0,
               last |-> None, before |-> None]
    /\ pc' = "scale_iter"
    /\ UNCHANGED <<wr, wres, hist, rd, dst, rres, calls, argPrev, argNext>>

\* next() returning Some((sx, dx)): n counts the pairs, last is the pair
\* returned and before the one returned by the call before
ScaleNext ==
    /\ pc = "scale_iter"
    /\ LinScale_next(out.it).some
    /\ out' = Let(LinScale_next(out.it), LAMBDA r :
                  [it |-> r.it, n |-> out.n + 1, last |-> [sx |-> r.sx, dx |-> r.dx],
                   before |-> out.last])
    /\ UNCHANGED <<pc, wr, wres, hist, rd, dst, rres, calls, argPrev, argNext>>

\* next() returning None
ScaleEnd ==
    /\ pc = "scale_iter"
    /\ ~LinScale_next(out.it).some
    /\ pc' = "scale_done"
    /\ UNCHANGED <<out, wr, wres, hist, rd, dst, rres, calls, argPrev, argNext>>

NextScale == ScaleNew \/ ScaleNext \/ ScaleEnd

SpecScale == InitScale /\ [][NextScale]_vars

\* C19: the n-th pair LinScale(sw, dw) yields has dx = n - 1, sx = 0 for
\* dx = 0 and otherwise sx = floor((dx * sw + floor(sw / 2)) / dw) in unbounded
\* arithmetic; sx does not decrease; the iterator ends after exactly dw pairs,
\* and the last one has sx < sw.
C19_LinScaleFormula ==
    /\ (pc \in {"scale_iter", "scale_done"} /\ out.n > 0) =>
        /\ out.n <= argNext.dw
        /\ out.last.dx = out.n - 1
        /\ out.last.sx = IF out.last.dx = 0 THEN 0
                         ELSE (out.last.dx * argNext.sw + argNext.sw \div 2) \div argNext.dw
        /\ out.before # None => out.before.sx <= out.last.sx /\ out.before.dx + 1 = out.last.dx
        /\ out.last.dx = argNext.dw - 1 => out.last.sx < argNext.sw
    /\ pc = "scale_done" => out.n = argNext.dw

\* C19 witness: sw is the largest machine word and dw is 3, so sw + xerr
\* wraps in the first step; the second pair is (floor(1.5 * sw / 3), 1)
C19_Witness ==
    /\ pc = "scale_iter"
    /\ argNext = [sw |-> USIZE_MAX, dw |-> 3]
    /\ argNext.sw + argNext.sw \div 2 > USIZE_MAX
    /\ out.last = [sx |-> (USIZE_MAX + USIZE_MAX \div 2) \div 3, dx |-> 1]

(***************************************************************************)
(* Scenario SpecOver: the decoders on chunks of one row whose packets end  *)
(* before, at, or past the right edge, and on palette chunks whose packets *)
(* end before, at, or past entry 256.                                      *)
(***************************************************************************)
OvW == 4

\* the first palette entry the packets of the scenario address
OvPalBase == PAL_LEN \div 3 - OvW - 2

\* the pairs <<dst, packet>>: a one-row destination that is 0 inside the view
\* and 2 outside it, and a packet of a skip and a length, which is a copy
\* packet or a fill packet
OverInputs ==
    { <<[g |-> g, rows |-> <<[c \in 1..w |-> 0]>>, margin |-> 2, pal |-> 0],
        [skip |-> s, n |-> n, fill |-> f]>> :
        g \in Geometries, w \in 2..OvW, s \in 0..(OvW + 1), n \in 1..(OvW + 2), f \in BOOLEAN }

InitOver ==
    /\ pc = "over_input"
    /\ \E inp \in OverInputs : argPrev = inp[1] /\ argNext = inp[2]
    /\ out = None
    /\ wr = None /\ wres = None /\ hist = <<>>
    /\ rd = None /\ dst = None /\ rres = None /\ calls = <<>>

\* an FLI_LC chunk: first line 0, one line, one packet
OverChunkLc(p) ==
    le16(0) \o le16(1) \o <<1, p.skip>>
        \o (IF p.fill THEN <<u8(0 - p.n), 1>> ELSE <<p.n>> \o Fill(p.n, 1))

\* an FLI_SS2 chunk: one line, one packet of n words
OverChunkSs2(p) ==
    le16(1) \o le16(1) \o <<p.skip>>
        \o (IF p.fill THEN <<u8(0 - p.n), 1, 1>> ELSE <<p.n>> \o Fill(2 * p.n, 1))

\* an FLI_BRUN chunk: one line; a run of `skip` pixels, then a run or a
\* literal packet of n pixels
OverChunkBrun(p) ==
    <<2>> \o (IF p.skip > 0 THEN <<p.skip, 0>> ELSE <<>>)
          \o (IF p.fill THEN <<p.n, 1>> ELSE <<u8(0 - p.n)>> \o Fill(p.n, 1))

\* a palette chunk: one packet, or two of which the first copies one entry
OverChunkColor(p) ==
    IF p.fill THEN le16(2) \o <<OvPalBase - 1, 1>> \o Fill(3, 4) \o <<p.skip, p.n>> \o Fill(3 * p.n, 4)
    ELSE le16(1) \o <<OvPalBase + p.skip, p.n>> \o Fill(3 * p.n, 4)

\* decode_fli_lc(chunk, dst)
OverDecodeLc ==
    /\ pc = "over_input"
    /\ out' = [op |-> "lc", dec |-> decode_fli_lc(OverChunkLc(argNext), ViewOf(argPrev))]
    /\ pc' = "over_decoded"
    /\ UNCHANGED <<wr, wres, hist, rd, dst, rres, calls, argPrev, argNext>>

\* decode_fli_ss2(chunk, dst)
OverDecodeSs2 ==
    /\ pc = "over_input"
    /\ out' = [op |-> "ss2", dec |-> decode_fli_ss2(OverChunkSs2(argNext), ViewOf(argPrev))]
    /\ pc' = "over_decoded"
    /\ UNCHANGED <<wr, wres, hist, rd, dst, rres, calls, argPrev, argNext>>

\* decode_fli_brun(chunk, dst)
OverDecodeBrun ==
    /\ pc = "over_input"
    /\ out' = [op |-> "brun", dec |-> decode_fli_brun(OverChunkBrun(argNext), ViewOf(argPrev))]
    /\ pc' = "over_decoded"
    /\ UNCHANGED <<wr, wres, hist, rd, dst, rres, calls, argPrev, argNext>>

\* decode_fli_color256(chunk, dst)
OverDecodeColor256 ==
    /\ pc = "over_input"
    /\ out' = [op |-> "color256",
               dec |-> decode_fli_color256(OverChunkColor(argNext), ViewOf(argPrev))]
    /\ pc' = "over_decoded"
    /\ UNCHANGED <<wr, wres, hist, rd, dst, rres, calls, argPrev, argNext>>

\* decode_fli_color64(chunk, dst)
OverDecodeColor64 ==
    /\ pc = "over_input"
    /\ out' = [op |-> "color64",
               dec |-> decode_fli_color64(OverChunkColor(argNext), ViewOf(argPrev))]
    /\ pc' = "over_decoded"
    /\ UNCHANGED <<wr, wres, hist, rd, dst, rres, calls, argPrev, argNext>>

NextOver ==
    \/ OverDecodeLc \/ OverDecodeSs2 \/ OverDecodeBrun
    \/ OverDecodeColor256 \/ OverDecodeColor64

SpecOver == InitOver /\ [][NextOver]_vars

\* the column, counted from the left edge of the view, at which the packet ends
OverEnd == argNext.skip + (IF out.op = "ss2" THEN 2 * argNext.n ELSE argNext.n)

\* the packet passes the right edge of the view; decode_fli_brun reads it only
\* when the run before it has left the row unfinished
OverPasses ==
    /\ OverEnd > Len(argPrev.rows[1])
    /\ out.op = "brun" => argNext.skip < Len(argPrev.rows[1])

\* the pixel decoder returned Corrupted if the packet passes the right edge,
\* and left every byte outside the visible rectangle as it was
OverPixelsKept ==
    /\ OverPasses => out.dec.res = "Corrupted"
    /\ Len(out.dec.buf) = Len(ViewOf(argPrev).buf)
    /\ \A i \in 1..Len(out.dec.buf) :
            ~InView(ViewOf(argPrev), i - 1) => out.dec.buf[i] = ViewOf(argPrev).buf[i]

\* the palette decoder returned Corrupted if the cursor passes 256 entries,
\* and the palette still has 256 entries
OverPaletteKept ==
    /\ OvPalBase + argNext.skip + argNext.n > PAL_LEN \div 3 => out.dec.res = "Corrupted"
    /\ Len(out.dec.pal) = PAL_LEN

\* C20: decode_fli_lc, decode_fli_ss2 and decode_fli_brun return Corrupted
\* for a packet whose skip plus length passes the right edge of the visible
\* rectangle and never write outside columns x..x+w; decode_fli_color256 and
\* decode_fli_color64 return Corrupted, without writing past entry 255, when
\* the cursor would exceed 256 entries.
C20_Overrun ==
    pc = "over_decoded" =>
        IF out.op \in {"lc", "ss2", "brun"} THEN OverPixelsKept ELSE OverPaletteKept

\* the part of C20 that the code keeps: decode_fli_brun and the palette
\* decoders, and decode_fli_lc and decode_fli_ss2 on views with stride = x + w
OverrunWhereChecked ==
    (pc = "over_decoded" /\ (out.op \in {"lc", "ss2"} => argPrev.g = "plain")) =>
        IF out.op \in {"lc", "ss2", "brun"} THEN OverPixelsKept ELSE OverPaletteKept

(***************************************************************************)
(* Scenario SpecHigh: decode_fli_lc and decode_fli_ss2 on chunks whose     *)
(* lines end before, at, or past the bottom of the view.                   *)
(***************************************************************************)
HiH == 3

\* the pairs <<dst, lines>>: a destination of width 2 that is 0 inside the
\* view and 2 outside it, over a buffer with `below` rows beneath the view;
\* and the lines of the chunk: `first` lines passed over, then `n` lines
HighInputs ==
    { <<[g |-> g, rows |-> [r \in 1..h |-> <<0, 0>>], margin |-> 2, pal |-> 0, below |-> b],
        [first |-> a, n |-> n]>> :
        g \in Geometries, h \in 1..HiH, b \in {0, 1}, a \in 0..(HiH + 1), n \in 0..(HiH + 1) }

\* the raster of a description with rows beneath the view
HighView(d) ==
    Let(ViewOf(d), LAMBDA v :
        [v EXCEPT !.buf = v.buf \o Fill(v.stride * d.below, d.margin)])

InitHigh ==
    /\ pc = "high_input"
    /\ \E inp \in HighInputs : argPrev = inp[1] /\ argNext = inp[2]
    /\ out = None
    /\ wr = None /\ wres = None /\ hist = <<>>
    /\ rd = None /\ dst = None /\ rres = None /\ calls = <<>>

\* k lines of an FLI_LC chunk, each one packet that copies one pixel
RECURSIVE HighLinesLc(_)
HighLinesLc(k) == IF k = 0 THEN <<>> ELSE <<1, 0, 1, 1>> \o HighLinesLc(k - 1)

\* k lines of an FLI_SS2 chunk, each one packet that copies one word
RECURSIVE HighLinesSs2(_)
HighLinesSs2(k) == IF k = 0 THEN <<>> ELSE le16(1) \o <<0, 1, 1, 1>> \o HighLinesSs2(k - 1)

\* an FLI_LC chunk: y0 = first, hh = n
HighChunkLc(p) == le16(p.first) \o le16(p.n) \o HighLinesLc(p.n)

\* an FLI_SS2 chunk: n lines, a line-skip word of -first before them
HighChunkSs2(p) ==
    le16(p.n) \o (IF p.first > 0 THEN le16(65536 - p.first) ELSE <<>>) \o HighLinesSs2(p.n)

\* decode_fli_lc(chunk, dst)
HighDecodeLc ==
    /\ pc = "high_input"
    /\ out' = [op |-> "lc", dec |-> decode_fli_lc(HighChunkLc(argNext), HighView(argPrev))]
    /\ pc' = "high_decoded"
    /\ UNCHANGED <<wr, wres, hist, rd, dst, rres, calls, argPrev, argNext>>

\* decode_fli_ss2(chunk, dst)
HighDecodeSs2 ==
    /\ pc = "high_input"
    /\ out' = [op |-> "ss2", dec |-> decode_fli_ss2(HighChunkSs2(argNext), HighView(argPrev))]
    /\ pc' = "high_decoded"
    /\ UNCHANGED <<wr, wres, hist, rd, dst, rres, calls, argPrev, argNext>>

NextHigh == HighDecodeLc \/ HighDecodeSs2

SpecHigh == InitHigh /\ [][NextHigh]_vars

\* the chunk has a line at or below the bottom of the view
HighPasses == argNext.n > 0 /\ argNext.first + argNext.n > Len(argPrev.rows)

\* every byte outside the visible rectangle is as it was
HighOutsideKept ==
    /\ Len(out.dec.buf) = Len(HighView(argPrev).buf)
    /\ \A i \in 1..Len(out.dec.buf) :
            ~InView(HighView(argPrev), i - 1) => out.dec.buf[i] = HighView(argPrev).buf[i]

\* C21: decode_fli_lc with y0 + hh > h, and decode_fli_ss2 whose line skips
\* and line count carry the row index to h or beyond while lines remain,
\* return Corrupted; and no row outside y..y+h is written.
C21_HeightOverrun ==
    pc = "high_decoded" =>
        /\ HighPasses => out.dec.res = "Corrupted"
        /\ HighOutsideKept

\* what the code does with such a chunk: decode_fli_lc stops on a slice index
\* out of range when the lines pass the end of the buffer, and otherwise
\* decodes them all; decode_fli_ss2 stops at the bottom of the view and
\* returns Ok; Corrupted is never the result
HighAsCoded ==
    (pc = "high_decoded" /\ HighPasses) =>
        /\ out.dec.res \in {"Ok", "Panic"}
        /\ out.op = "ss2" => out.dec.res = "Ok" /\ HighOutsideKept
        /\ out.op = "lc" =>
            (out.dec.res = "Panic") <=>
                (argNext.first + argNext.n > Len(argPrev.rows) + argPrev.below)

(***************************************************************************)
(* Scenario SpecBrun: encode_fli_brun and decode_fli_brun one loop         *)
(* iteration per step, so that rows of several hundred packets can be      *)
(* followed; the decoder runs on the chunk as written and, beside it, on   *)
(* the chunk with other count bytes.                                       *)
(***************************************************************************)
\* the state of encode_fli_brun at the start of row k:
\* [k, idx, state, count, row, bytes, last, res]; row holds the packets of
\* the row so far, bytes the rows finished, last the latest write_packet
brun_row_start(k, bytes) ==
    [k |-> k, idx |-> 0, state |-> Same(0, 0), count |-> 0, row |-> <<>>,
     bytes |-> bytes, last |-> None, res |-> "go"]

\* one iteration of `for g in GroupByValue::new(n)`
brun_step_group(next, e) ==
    Let(VisRow(next, next.y + e.k), LAMBDA n :
    Let(GroupByValue_next(n, e.idx), LAMBDA nx :
    Let(brun_combine_packets(e.state, nx.g), LAMBDA c :
        IF c.some THEN [e EXCEPT !.idx = nx.idx, !.state = c.g, !.last = None]
        ELSE Let(brun_write_packet(e.state, e.count, n), LAMBDA w1 :
                 [e EXCEPT !.idx = nx.idx, !.state = nx.g, !.count = w1.count,
                           !.row = e.row \o w1.bytes,
                           !.last = [g |-> e.state, n0 |-> e.count, bytes |-> w1.bytes]]))))

\* the end of a row: the last write_packet, the size check and the count
\* byte; after the last row the pad byte
brun_step_row_end(next, e) ==
    Let(brun_write_packet(e.state, e.count, VisRow(next, next.y + e.k)), LAMBDA w1 :
    Let(e.bytes \o <<IF w1.count <= U8_MAX THEN w1.count ELSE 0>> \o e.row \o w1.bytes,
        LAMBDA b2 :
    Let([g |-> e.state, n0 |-> e.count, bytes |-> w1.bytes], LAMBDA last :
        IF Len(b2) > next.w * next.h
        THEN [e EXCEPT !.res = "ExceededLimit", !.bytes = b2, !.count = w1.count, !.last = last]
        ELSE IF e.k + 1 >= next.h
        THEN [e EXCEPT !.res = "Ok", !.bytes = PadEven(b2), !.count = w1.count, !.last = last]
        ELSE [brun_row_start(e.k + 1, b2) EXCEPT !.last = last])))

\* the state of decode_fli_brun: [r, k, fresh, x0, buf, res]; fresh is set
\* when the count byte of row k has not been read yet
brun_decode_start(d) ==
    [r |-> 0, k |-> 0, fresh |-> TRUE, x0 |-> 0, buf |-> d.buf, res |-> "go"]

\* a decoder that stops a row when it has read as many packets as the
\* count byte says
brun_decode_step_counted(src, d, s) ==
    IF s.k >= d.h THEN [s EXCEPT !.res = "Ok"]
    ELSE IF s.r + 2 > Len(src) THEN [s EXCEPT !.res = "Io"]
    ELSE IF At(src, s.r) = 0 THEN [s EXCEPT !.r = s.r + 1, !.k = s.k + 1]
    ELSE [s EXCEPT !.r = s.r + 3, !.k = s.k + 1,
                   !.buf = Patch(s.buf, d.stride * (d.y + s.k) + d.x,
                                 Fill(Min(d.w, At(src, s.r + 1) % 128), At(src, s.r + 2)))]

\* one step of decode_fli_brun: the count byte when the row is fresh, and
\* one iteration of `while x0 < row.len()`
brun_decode_step(src, d, s) ==
    IF s.k >= d.h THEN [s EXCEPT !.res = "Ok"]
    ELSE IF s.fresh /\ s.r + 1 > Len(src) THEN [s EXCEPT !.res = "Io"]
    ELSE Let(IF s.fresh THEN s.r + 1 ELSE s.r, LAMBDA r :
         IF r + 1 > Len(src) THEN [s EXCEPT !.res = "Io", !.r = r, !.fresh = FALSE]
         ELSE Let(i8(At(src, r)), LAMBDA signed_length :
              Let(IF signed_length >= 0 THEN signed_length ELSE -signed_length, LAMBDA len :
              Let(s.x0 + len, LAMBDA end :
              Let(d.stride * (d.y + s.k) + d.x, LAMBDA row0 :
              Let(IF end >= d.w THEN [k |-> s.k + 1, fresh |-> TRUE, x0 |-> 0]
                  ELSE [k |-> s.k, fresh |-> FALSE, x0 |-> end], LAMBDA at :
                  IF end > d.w
                  THEN [s EXCEPT !.res = "Corrupted", !.r = r + 1, !.fresh = FALSE]
                  ELSE IF signed_length >= 0
                  THEN IF r + 2 > Len(src)
                       THEN [s EXCEPT !.res = "Io", !.r = r + 1, !.fresh = FALSE]
                       ELSE [r |-> r + 2, k |-> at.k, fresh |-> at.fresh, x0 |-> at.x0,
                             buf |-> Patch(s.buf, row0 + s.x0, Fill(len, At(src, r + 1))),
                             res |-> "go"]
                  ELSE IF r + 1 + len > Len(src)
                  THEN [s EXCEPT !.res = "Io", !.r = r + 1, !.fresh = FALSE]
                  ELSE [r |-> r + 1 + len, k |-> at.k, fresh |-> at.fresh, x0 |-> at.x0,
                        buf |-> Patch(s.buf, row0 + s.x0, Slice(src, r + 1, r + 1 + len)),
                        res |-> "go"]))))))

BrW == 3

BrH == 2

\* the width of a row of one value
BrunRun == 320

\* the number of pixels of two alternating values at the start of a row
BrunLit == 130

\* the width of a row of runs of 3
BrunMany == 768

\* the rows longer than a packet: one value; two alternating values and
\* then 20 pixels of one value; runs of 3 pixels of two alternating values
BrunLongRows ==
    { [c \in 1..BrunRun |-> 1],
      [c \in 1..(BrunLit + 20) |-> IF c <= BrunLit THEN (c % 2) + 1 ELSE 0],
      [c \in 1..BrunMany |-> (((c - 1) \div 3) % 2) + 1] }

\* the pairs <<dst, next>>: next holds the row R in the rows M, or is one
\* long row; dst has the same geometry and is 2 everywhere
BrunInputs ==
    { <<[g |-> g, rows |-> [r \in 1..h |-> [c \in 1..BrW |-> 2]], margin |-> 2, pal |-> 0],
        [g |-> g, rows |-> [r \in 1..h |-> IF r \in M THEN R ELSE [c \in 1..BrW |-> 0]],
         margin |-> 1, pal |-> 0]>> :
        g \in Geometries, h \in {BrH}, R \in RowsOver(BrW), M \in SUBSET (1..BrH) }
    \cup
    { <<[g |-> g, rows |-> <<[c \in 1..Len(R) |-> 2]>>, margin |-> 2, pal |-> 0],
        [g |-> g, rows |-> <<R>>, margin |-> 1, pal |-> 0]>> :
        g \in {"offset"}, R \in BrunLongRows }

InitBrun ==
    /\ pc = "brun_input"
    /\ \E inp \in BrunInputs : argPrev = inp[1] /\ argNext = inp[2]
    /\ out = None
    /\ wr = None /\ wres = None /\ hist = <<>>
    /\ rd = None /\ dst = None /\ rres = None /\ calls = <<>>

\* the packets in bytes from offset r on: <<[run, len], ...>>
RECURSIVE BrunPackets(_, _)
BrunPackets(bytes, r) ==
    IF r >= Len(bytes) THEN <<>>
    ELSE IF i8(At(bytes, r)) >= 0
    THEN <<[run |-> TRUE, len |-> i8(At(bytes, r))]>> \o BrunPackets(bytes, r + 2)
    ELSE <<[run |-> FALSE, len |-> -i8(At(bytes, r))]>>
            \o BrunPackets(bytes, r + 1 - i8(At(bytes, r)))

\* the number of packets in the latest write_packet
BrunWritten(e) == IF e.last = None THEN 0 ELSE Len(BrunPackets(e.last.bytes, 0))

\* encode_fli_brun up to the first row's loop; np counts the packets of the
\* row as they appear in the bytes, marks holds, for each row finished, the
\* offset of its count byte and its number of packets
BrunStart ==
    /\ pc = "brun_input"
    /\ out' = [e |-> brun_row_start(0, <<>>), np |-> 0, marks |-> {}]
    /\ pc' = "brun_encoding"
    /\ UNCHANGED <<wr, wres, hist, rd, dst, rres, calls, argPrev, argNext>>

\* one iteration of the loop over the groups of the row
BrunGroup ==
    /\ pc = "brun_encoding"
    /\ GroupByValue_next(VisRow(ViewOf(argNext), ViewOf(argNext).y + out.e.k), out.e.idx).some
    /\ out' = Let(brun_step_group(ViewOf(argNext), out.e), LAMBDA e :
                  [e |-> e, np |-> out.np + BrunWritten(e), marks |-> out.marks])
    /\ UNCHANGED <<pc, wr, wres, hist, rd, dst, rres, calls, argPrev, argNext>>

\* the end of the row, and of the chunk after the last row
BrunRowEnd ==
    /\ pc = "brun_encoding"
    /\ ~GroupByValue_next(VisRow(ViewOf(argNext), ViewOf(argNext).y + out.e.k), out.e.idx).some
    /\ out' = Let(brun_step_row_end(ViewOf(argNext), out.e), LAMBDA e :
                  [e |-> e,
                   np |-> IF e.res = "go" THEN 0 ELSE out.np + BrunWritten(e),
                   marks |-> out.marks \cup {[pos |-> Len(out.e.bytes),
                                              np |-> out.np + BrunWritten(e)]}])
    /\ pc' = IF out'.e.res = "go" THEN "brun_encoding" ELSE "brun_encoded"
    /\ UNCHANGED <<wr, wres, hist, rd, dst, rres, calls, argPrev, argNext>>

\* the chunk with every count byte replaced by c, and cut bytes taken off
\* its end
BrunRecount(bytes, marks, c, cut) ==
    [i \in 1..(Len(bytes) - cut) |->
        IF \E m \in marks : m.pos = i - 1 THEN c ELSE bytes[i]]

\* decode_fli_brun up to its first row, on the chunk as written (a) and on
\* the chunk with other count bytes (b), both cut short alike
BrunDecodeStart ==
    /\ pc = "brun_encoded"
    /\ out.e.res = "Ok"
    /\ \E c \in {0, 1, U8_MAX} : \E cut \in {0, 2} :
        out' = [e |-> out.e, np |-> out.np, marks |-> out.marks, c |-> c, cut |-> cut,
                srca |-> SubSeq(out.e.bytes, 1, Len(out.e.bytes) - cut),
                srcb |-> BrunRecount(out.e.bytes, out.marks, c, cut),
                a |-> brun_decode_start(ViewOf(argPrev)),
                b |-> brun_decode_start(ViewOf(argPrev))]
    /\ pc' = "brun_decoding"
    /\ UNCHANGED <<wr, wres, hist, rd, dst, rres, calls, argPrev, argNext>>

\* one step of both decoders
BrunDecodeStep ==
    /\ pc = "brun_decoding"
    /\ out' = [out EXCEPT
                !.a = IF out.a.res = "go" THEN brun_decode_step(out.srca, ViewOf(argPrev), out.a)
                      ELSE out.a,
                !.b = IF out.b.res = "go" THEN brun_decode_step(out.srcb, ViewOf(argPrev), out.b)
                      ELSE out.b]
    /\ pc' = IF out'.a.res # "go" /\ out'.b.res # "go" THEN "brun_decoded" ELSE "brun_decoding"
    /\ UNCHANGED <<wr, wres, hist, rd, dst, rres, calls, argPrev, argNext>>

NextBrun == BrunStart \/ BrunGroup \/ BrunRowEnd \/ BrunDecodeStart \/ BrunDecodeStep

SpecBrun == InitBrun /\ [][NextBrun]_vars

\* on rows short enough for it, the steps give what encode_fli_brun gives
BrunStepsAgree ==
    (pc = "brun_encoded" /\ Len(argNext.rows[1]) <= BrW + 1) =>
        Let(encode_fli_brun(ViewOf(argNext)), LAMBDA enc :
            /\ enc.res = out.e.res
            /\ enc.bytes = out.e.bytes)

\* C22: two BRUN chunk bodies that differ only in their count bytes take
\* decode_fli_brun through the same steps to the same result, pixels or
\* error; and the chunk the encoder wrote decodes to next's pixels, also
\* when a row has more than 255 packets and its count byte is 0.
C22_CountByteIgnored ==
    pc \in {"brun_decoding", "brun_decoded"} =>
        /\ out.a = out.b
        /\ (pc = "brun_decoded" /\ out.cut = 0) =>
            /\ out.a.res = "Ok"
            /\ VisPixels([ViewOf(argPrev) EXCEPT !.buf = out.a.buf]) = VisPixels(ViewOf(argNext))

\* C22 witness: a row of 256 packets, written with the count byte 0 and
\* decoded with the count byte 255 as well
C22_Witness ==
    /\ pc = "brun_decoded"
    /\ Len(argNext.rows[1]) = BrunMany
    /\ \E m \in out.marks : m.np > U8_MAX
    /\ out.srca[1] = 0 /\ out.srcb[1] = U8_MAX /\ out.cut = 0
    /\ out.b.res = "Ok"
    /\ VisPixels([ViewOf(argPrev) EXCEPT !.buf = out.b.buf]) = VisPixels(ViewOf(argNext))

\* the lengths write_packet gives a group of n pixels with packets of at
\* most max pixels
BrunSplit(n, max) ==
    [i \in 1..((n + max - 1) \div max) |-> IF i * max <= n THEN max ELSE n % max]

\* C27: every write_packet of encode_fli_brun writes packets of length 1
\* to 127 for a run and 1 to 128 for a copy; a run of L pixels that was
\* not merged is written as floor(L / 127) run packets of 127 and then
\* one of the remainder, if any; and the count byte of every row is the
\* number of its packets when that is at most 255, and 0 otherwise.
C27_PacketLimits ==
    pc \in {"brun_encoding", "brun_encoded"} =>
        /\ out.e.last # None =>
            Let(BrunPackets(out.e.last.bytes, 0), LAMBDA ps :
                /\ \A i \in 1..Len(ps) :
                      /\ ps[i].len >= 1
                      /\ ps[i].len <= IF ps[i].run THEN 127 ELSE 128
                      /\ ps[i].run = out.e.last.g.same
                /\ [i \in 1..Len(ps) |-> ps[i].len]
                      = BrunSplit(out.e.last.g.n, IF out.e.last.g.same THEN 127 ELSE 128)
                /\ out.e.last.g.same => out.e.last.g.n \div 127
                      = Cardinality({i \in 1..Len(ps) : ps[i].len = 127}))
        /\ \A m \in out.marks :
              At(out.e.bytes, m.pos) = IF m.np <= U8_MAX THEN m.np ELSE 0

\* C27 witness: the row of BrunRun identical pixels is written as run
\* packets of 127, 127 and the rest, with the count byte 3
C27_Witness ==
    /\ pc = "brun_encoded"
    /\ Len(argNext.rows[1]) = BrunRun
    /\ out.e.last.g = Same(0, BrunRun)
    /\ BrunPackets(out.e.last.bytes, 0)
          = <<[run |-> TRUE, len |-> 127], [run |-> TRUE, len |-> 127],
              [run |-> TRUE, len |-> BrunRun - 254]>>
    /\ out.e.bytes[1] = 3

(***************************************************************************)
(* Postage stamp decoding (pstamp.rs, codec/codec015.rs, codec016.rs,      *)
(* codec018.rs).                                                           *)
(***************************************************************************)
\* linscale(sw, dw, dx)
linscale(sw, dw, dx) == IF dx = 0 THEN 0 ELSE (dx * sw + sw \div 2) \div dw

\* decode_fps_copy: [res, buf]
decode_fps_copy(src, src_w, src_h, d) ==
    IF src_w <= 0 \/ src_h <= 0 \/ src_w * src_h > Len(src)
    THEN [res |-> "WrongResolution", buf |-> d.buf]
    ELSE [res |-> "Ok",
          buf |-> [i \in 1..Len(d.buf) |->
                     IF InView(d, i - 1)
                     THEN At(src, src_w * linscale(src_h, d.h, ((i - 1) \div d.stride) - d.y)
                                  + linscale(src_w, d.w, ((i - 1) % d.stride) - d.x))
                     ELSE d.buf[i]]]

\* decode_fps_brun_skip from offset r at column sx: [res, r]
RECURSIVE decode_fps_brun_skip(_, _, _, _)
decode_fps_brun_skip(src, r, sw, sx) ==
    IF sx >= sw THEN [res |-> "Ok", r |-> r]
    ELSE IF r >= Len(src) THEN [res |-> "Io", r |-> r]
    ELSE IF i8(At(src, r)) >= 0
    THEN decode_fps_brun_skip(src, r + 2, sw, sx + i8(At(src, r)))
    ELSE decode_fps_brun_skip(src, r + 1 - i8(At(src, r)), sw, sx - i8(At(src, r)))

\* the elements of the peeked LinScale that a packet ending at column end
\* takes: the first index j with sxs[j] >= end
fps_brun_take(sxs, j, end) ==
    LET Go(k) == k < Len(sxs) /\ At(sxs, k) < end
    IN  FirstStop(j, Len(sxs), 1, Go)

\* the packets of decode_fps_brun_line from offset r on; sxs are the
\* source columns LinScale::new(sw, dw) yields and j the number of them
\* taken so far: [res, r, row]
RECURSIVE decode_fps_brun_packets(_, _, _, _, _, _, _)
decode_fps_brun_packets(src, r, sw, sxs, j, sx, row) ==
    IF sx >= sw THEN [res |-> "Ok", r |-> r, row |-> row]
    ELSE IF r >= Len(src) THEN [res |-> "Io", r |-> r, row |-> row]
    ELSE IF j < Len(sxs) /\ At(sxs, j) < sx THEN [res |-> "Panic", r |-> r, row |-> row]
    ELSE IF i8(At(src, r)) >= 0
    THEN IF r + 1 >= Len(src) THEN [res |-> "Io", r |-> r + 1, row |-> row]
         ELSE Let(sx + i8(At(src, r)), LAMBDA end :
              Let(fps_brun_take(sxs, j, end), LAMBDA j2 :
                  decode_fps_brun_packets(src, r + 2, sw, sxs, j2, end,
                      [k \in 1..Len(row) |->
                          IF k - 1 >= j /\ k - 1 < j2 THEN At(src, r + 1) ELSE row[k]])))
    ELSE Let(-i8(At(src, r)), LAMBDA len :
             IF r + 1 + len > Len(src) THEN [res |-> "Io", r |-> Len(src), row |-> row]
             ELSE Let(fps_brun_take(sxs, j, sx + len), LAMBDA j2 :
                  decode_fps_brun_packets(src, r + 1 + len, sw, sxs, j2, sx + len,
                      [k \in 1..Len(row) |->
                          IF k - 1 >= j /\ k - 1 < j2
                          THEN At(src, r + 1 + At(sxs, k - 1) - sx) ELSE row[k]])))

\* decode_fps_brun_line: the count byte, then the packets
decode_fps_brun_line(src, r, sw, dw, row) ==
    IF r >= Len(src) THEN [res |-> "Io", r |-> r, row |-> row]
    ELSE decode_fps_brun_packets(src, r + 1, sw,
                                 LinScale_items(LinScale_new(sw, dw), <<>>), 0, 0, row)

\* `while sy < next_y { decode_fps_brun_skip(...)?; sy = sy + 1; }`: [res, r]
RECURSIVE fps_brun_skip_rows(_, _, _, _, _)
fps_brun_skip_rows(src, r, sw, sy, next_y) ==
    IF sy >= next_y THEN [res |-> "Ok", r |-> r]
    ELSE IF r >= Len(src) THEN [res |-> "Io", r |-> r]
    ELSE Let(decode_fps_brun_skip(src, r + 1, sw, 0), LAMBDA s :
             IF s.res # "Ok" THEN s
             ELSE fps_brun_skip_rows(src, s.r, sw, sy + 1, next_y))

\* the loop of decode_fps_brun over the rows of dst from dy on; sys are the
\* source rows LinScale::new(src_h, dst.h) yields: [res, buf]
RECURSIVE decode_fps_brun_rows(_, _, _, _, _, _, _, _)
decode_fps_brun_rows(src, r, src_w, sys, dy, sy, d, buf) ==
    IF dy >= Len(sys) THEN [res |-> "Ok", buf |-> buf]
    ELSE IF At(sys, dy) < sy /\ dy > 0
    THEN decode_fps_brun_rows(src, r, src_w, sys, dy + 1, sy, d,
             Patch(buf, d.stride * (d.y + dy) + d.x,
                   Slice(buf, d.stride * (d.y + dy - 1) + d.x,
                         d.stride * (d.y + dy - 1) + d.x + d.w)))
    ELSE Let(fps_brun_skip_rows(src, r, src_w, sy, At(sys, dy)), LAMBDA s :
             IF s.res # "Ok" THEN [res |-> s.res, buf |-> buf]
             ELSE Let(d.stride * (d.y + dy) + d.x, LAMBDA start :
                  Let(decode_fps_brun_line(src, s.r, src_w, d.w,
                                           Slice(buf, start, start + d.w)), LAMBDA l :
                      IF l.res # "Ok" THEN [res |-> l.res, buf |-> Patch(buf, start, l.row)]
                      ELSE decode_fps_brun_rows(src, l.r, src_w, sys, dy + 1,
                                                Max(sy, At(sys, dy)) + 1, d,
                                                Patch(buf, start, l.row)))))

\* decode_fps_brun: [res, buf]
decode_fps_brun(src, src_w, src_h, d) ==
    IF src_w <= 0 \/ src_h <= 0 THEN [res |-> "WrongResolution", buf |-> d.buf]
    ELSE decode_fps_brun_rows(src, 0, src_w, LinScale_items(LinScale_new(src_h, d.h), <<>>),
                              0, 0, d, d.buf)

\* make_pstamp_pal: the palette with the six-cube in its first 216 colors
make_pstamp_pal(pal) ==
    [i \in 1..PAL_LEN |->
        IF i > 3 * 216 THEN pal[i]
        ELSE Let((i - 1) \div 3, LAMBDA c :
                 CASE (i - 1) % 3 = 0 -> (((c \div 36) * 256) \div 6) % 256
                   [] (i - 1) % 3 = 1 -> ((((c \div 6) % 6) * 256) \div 6) % 256
                   [] OTHER -> (((c % 6) * 256) \div 6) % 256)]

\* apply_pstamp_xlat256: the new buffer
apply_pstamp_xlat256(xlat256, d) ==
    [i \in 1..Len(d.buf) |-> IF InView(d, i - 1) THEN At(xlat256, d.buf[i]) ELSE d.buf[i]]

\* decode_fli_pstamp: [res, created, buf, xlat256]
decode_fli_pstamp(src, d, xlat256) ==
    LET err(e) == [res |-> e, created |-> FALSE, buf |-> d.buf, xlat256 |-> xlat256]
        height == rd16(src, 0)
        width == rd16(src, 2)
        size == rd32(src, 6)
        magic == rd16(src, 10)
        end == 12 + (size - 6)
        img(r) == [res |-> r.res, created |-> r.res = "Ok", buf |-> r.buf,
                   xlat256 |-> xlat256]
    IN  IF Len(src) < 12 THEN err("Io")
        ELSE IF size < 6 THEN err("Corrupted")
        ELSE IF end > Len(src) THEN err("Corrupted")
        ELSE CASE magic = FPS_BRUN ->
                    IF width > 0 /\ height > 0
                    THEN img(decode_fps_brun(Slice(src, 12, end), width, height, d))
                    ELSE err("WrongResolution")
               [] magic = FPS_COPY ->
                    IF width > 0 /\ height > 0
                    THEN img(decode_fps_copy(Slice(src, 12, end), width, height, d))
                    ELSE err("WrongResolution")
               [] magic = FPS_XLAT256 ->
                    IF size >= 6 + 256
                    THEN [res |-> "Ok", created |-> FALSE, buf |-> d.buf,
                          xlat256 |-> Slice(src, 12, 12 + 256)]
                    ELSE err("Corrupted")
               [] OTHER -> err("BadMagic")

\* PostageStamp::new
PostageStamp_new(flic_w, flic_h, d) ==
    [flic_w |-> flic_w, flic_h |-> flic_h, have_image |-> FALSE, have_palette |-> FALSE,
     have_xlat256 |-> FALSE, apply_xlat256 |-> TRUE, xlat256 |-> Fill(256, 0), dst |-> d]

\* the match of PostageStamp::feed on the chunk type: [res, ps, ops]; ops
\* names the decoders called
feed_match(ps, magic, buf) ==
    LET skip == [res |-> "Ok", ps |-> ps, ops |-> <<>>]
        pal(name, r) ==
            [res |-> r.res,
             ps |-> [ps EXCEPT !.dst.pal = r.pal,
                               !.have_palette = IF r.res = "Ok" THEN TRUE ELSE @],
             ops |-> <<name>>]
        img(name, r) ==
            [res |-> r.res,
             ps |-> [ps EXCEPT !.dst.buf = r.buf,
                               !.have_image = IF r.res = "Ok" THEN TRUE ELSE @],
             ops |-> <<name>>]
    IN  CASE magic = FLI_COLOR256 ->
                IF ~ps.have_xlat256
                THEN pal("decode_fli_color256", decode_fli_color256(buf, ps.dst)) ELSE skip
          [] magic = FLI_COLOR64 ->
                IF ~ps.have_xlat256
                THEN pal("decode_fli_color64", decode_fli_color64(buf, ps.dst)) ELSE skip
          [] magic = FLI_BLACK ->
                [res |-> "Ok",
                 ps |-> [ps EXCEPT !.dst.buf = decode_fli_black(ps.dst),
                                   !.have_image = TRUE, !.apply_xlat256 = FALSE],
                 ops |-> <<"decode_fli_black">>]
          [] magic = FLI_ICOLORS ->
                IF ~ps.have_xlat256
                THEN pal("decode_fli_icolors", [res |-> "Ok", pal |-> decode_fli_icolors(ps.dst)])
                ELSE skip
          [] magic = FLI_BRUN ->
                img("decode_fps_brun", decode_fps_brun(buf, ps.flic_w, ps.flic_h, ps.dst))
          [] magic = FLI_COPY ->
                img("decode_fps_copy", decode_fps_copy(buf, ps.flic_w, ps.flic_h, ps.dst))
          [] magic = FLI_PSTAMP ->
                Let(decode_fli_pstamp(buf, ps.dst, ps.xlat256), LAMBDA r :
                    [res |-> "Ok",
                     ps |-> IF r.res = "Ok" /\ r.created
                            THEN [ps EXCEPT !.dst.buf = r.buf, !.have_image = TRUE,
                                            !.apply_xlat256 = FALSE]
                            ELSE IF r.res = "Ok"
                            THEN [ps EXCEPT !.xlat256 = r.xlat256, !.have_xlat256 = TRUE]
                            ELSE [ps EXCEPT !.dst.buf = r.buf],
                     ops |-> <<"decode_fli_pstamp">>])
          [] OTHER -> [res |-> "BadMagic", ps |-> ps, ops |-> <<>>]

\* the end of PostageStamp::feed once done is known: [res, done, ps, ops, pre];
\* pre is the raster before the table and the six-cube palette
feed_finish(m, done) ==
    IF m.res # "Ok" \/ ~done
    THEN [res |-> m.res, done |-> FALSE, ps |-> m.ps, ops |-> m.ops, pre |-> m.ps.dst]
    ELSE Let(IF m.ps.apply_xlat256 /\ ~m.ps.have_xlat256
             THEN make_pstamp_xlat256(m.ps.dst.pal) ELSE m.ps.xlat256, LAMBDA xlat256 :
             [res |-> "Ok", done |-> TRUE,
              ps |-> [m.ps EXCEPT
                        !.xlat256 = xlat256,
                        !.dst.buf = IF m.ps.apply_xlat256
                                    THEN apply_pstamp_xlat256(xlat256, m.ps.dst) ELSE @,
                        !.dst.pal = make_pstamp_pal(@)],
              ops |-> m.ops
                      \o (IF m.ps.apply_xlat256 /\ ~m.ps.have_xlat256
                          THEN <<"make_pstamp_xlat256">> ELSE <<>>)
                      \o (IF m.ps.apply_xlat256 THEN <<"apply_pstamp_xlat256">> ELSE <<>>)
                      \o <<"make_pstamp_pal">>,
              pre |-> m.ps.dst])

\* a PostageStamp::feed that is done as soon as it has an image
PostageStamp_feed_eager(ps, magic, buf) ==
    Let(feed_match(ps, magic, buf), LAMBDA m : feed_finish(m, m.ps.have_image))

\* PostageStamp::feed
PostageStamp_feed(ps, magic, buf) ==
    Let(feed_match(ps, magic, buf), LAMBDA m :
        feed_finish(m, m.ps.have_image
                       /\ (m.ps.have_palette \/ m.ps.have_xlat256 \/ ~m.ps.apply_xlat256)))

(***************************************************************************)
(* Scenario SpecFeed: read_postage_stamp over the chunks of a first frame, *)
(* any sequence of up to FeedLen chunks of a menu, into a raster of 2 x 2  *)
(* for a FLIC of 3 x 1.  argNext holds the chunks of the frame read so     *)
(* far.                                                                    *)
(***************************************************************************)
\* the largest number of chunks in the first frame
FeedLen == 3

\* the table of the FPS_XLAT256 chunk of the menu
FeedTable == [i \in 1..256 |-> (7 * i) % 216]

\* the body of an FLI_PSTAMP chunk
FeedStamp(height, width, magic, data) ==
    le16(height) \o le16(width) \o le16(PSTAMP_SIXCUBE) \o le32(6 + Len(data))
    \o le16(magic) \o data

\* the chunks: two palettes and a palette cut short; black; the identity
\* palette; an image as FLI_BRUN and as FLI_COPY and an FLI_COPY too short;
\* FLI_PSTAMP with a table, with an image as FPS_COPY and as FPS_BRUN and
\* with an FPS_BRUN image that ends inside its last row; and an FLI_LC
FeedMenu ==
    { [magic |-> FLI_COLOR256, buf |-> le16(1) \o <<0, 2, 0, 0, 0, 255, 128, 64>>],
      [magic |-> FLI_COLOR64, buf |-> le16(1) \o <<1, 1, 63, 32, 16>>],
      [magic |-> FLI_COLOR256, buf |-> le16(1) \o <<0, 2, 0>>],
      [magic |-> FLI_BLACK, buf |-> <<>>],
      [magic |-> FLI_ICOLORS, buf |-> <<>>],
      [magic |-> FLI_BRUN, buf |-> <<2, 2, 1, 255, 0>>],
      [magic |-> FLI_COPY, buf |-> <<1, 1, 0>>],
      [magic |-> FLI_COPY, buf |-> <<1>>],
      [magic |-> FLI_PSTAMP, buf |-> FeedStamp(2, 2, FPS_XLAT256, FeedTable)],
      [magic |-> FLI_PSTAMP, buf |-> FeedStamp(2, 2, FPS_COPY, <<10, 20, 30, 40>>)],
      [magic |-> FLI_PSTAMP, buf |-> FeedStamp(2, 2, FPS_BRUN, <<1, 2, 10, 1, 2, 20>>)],
      [magic |-> FLI_PSTAMP, buf |-> FeedStamp(3, 2, FPS_BRUN, <<1, 254, 5, 4, 1, 2, 6, 1>>)],
      [magic |-> FLI_LC, buf |-> le16(0) \o le16(0)] }

FeedInputs ==
    { [g |-> g, rows |-> <<<<1, 2>>, <<2, 1>>>>, margin |-> 2, pal |-> 2] : g \in Geometries }

InitFeed ==
    /\ pc = "feed_input"
    /\ argPrev \in FeedInputs /\ argNext = <<>>
    /\ out = None
    /\ wr = None /\ wres = None /\ hist = <<>>
    /\ rd = None /\ dst = None /\ rres = None /\ calls = <<>>

\* read_postage_stamp up to its loop: PostageStamp::new.  i is the number
\* of chunks fed and log holds, for each of them, what feed did
FeedStart ==
    /\ pc = "feed_input"
    /\ out' = [ps |-> PostageStamp_new(3, 1, ViewOf(argPrev)), i |-> 0, res |-> "go",
               log |-> <<>>]
    /\ pc' = "feeding"
    /\ UNCHANGED <<wr, wres, hist, rd, dst, rres, calls, argPrev, argNext>>

\* one iteration of the loop of read_postage_stamp
FeedChunk ==
    /\ pc = "feeding"
    /\ out.i < FeedLen
    /\ \E c \in FeedMenu : argNext' = Append(argNext, c)
    /\ Let(PostageStamp_feed(out.ps, argNext'[out.i + 1].magic, argNext'[out.i + 1].buf),
           LAMBDA f :
           /\ out' = [ps |-> f.ps, i |-> out.i + 1,
                      res |-> IF f.res # "Ok" THEN f.res ELSE IF f.done THEN "Ok" ELSE "go",
                      log |-> Append(out.log,
                                     [magic |-> argNext'[out.i + 1].magic,
                                      had_xlat256 |-> out.ps.have_xlat256,
                                      res |-> f.res, done |-> f.done, ops |-> f.ops,
                                      pre |-> f.pre])]
           /\ pc' = IF f.res # "Ok" THEN "feed_failed"
                    ELSE IF f.done THEN "feed_done" ELSE "feeding")
    /\ UNCHANGED <<wr, wres, hist, rd, dst, rres, calls, argPrev>>

\* the loop ends with the chunks, no stamp made
FeedEnd ==
    /\ pc = "feeding"
    /\ out' = [out EXCEPT !.res = "Ok"]
    /\ pc' = "feed_ended"
    /\ UNCHANGED <<wr, wres, hist, rd, dst, rres, calls, argPrev, argNext>>

NextFeed == FeedStart \/ FeedChunk \/ FeedEnd

SpecFeed == InitFeed /\ [][NextFeed]_vars

\* have_image && (have_palette || have_xlat256 || !apply_xlat256)
FeedComplete(ps) ==
    ps.have_image /\ (ps.have_palette \/ ps.have_xlat256 \/ ~ps.apply_xlat256)

\* the number of entries of ops that are name
FeedCalls(ops, name) == Cardinality({k \in 1..Len(ops) : ops[k] = name})

\* the chunk is an FLI_PSTAMP with an image in it
FeedStampImage(c) ==
    c.magic = FLI_PSTAMP /\ Len(c.buf) >= 12 /\ rd16(c.buf, 10) \in {FPS_BRUN, FPS_COPY}

\* C23: feed returns done at the first chunk after which have_image and
\* (have_palette or have_xlat256 or not apply_xlat256) holds, and no chunk
\* is fed after that one; by then the table, the one of an FPS_XLAT256
\* chunk if one was read and else the one made from the palette, has been
\* applied to the pixels once, and not at all when the image is of an
\* FLI_BLACK chunk or of a stamp inside FLI_PSTAMP; the first 216 colors
\* are the six-cube; and a palette chunk fed after the table was read is
\* not decoded.
C23_FeedStateMachine ==
    pc \in {"feeding", "feed_done", "feed_failed", "feed_ended"} =>
        /\ Len(out.log) = out.i
        /\ \A j \in 1..Len(out.log) :
              /\ out.log[j].done => j = Len(out.log) /\ pc = "feed_done"
              /\ (out.log[j].had_xlat256 /\ chunk_modifies_palette(out.log[j].magic)) =>
                    out.log[j].ops = <<>>
              /\ j < Len(out.log) => FeedCalls(out.log[j].ops, "apply_pstamp_xlat256") = 0
        /\ pc \in {"feeding", "feed_ended"} => ~FeedComplete(out.ps)
        /\ pc = "feed_done" =>
            Let(out.log[out.i], LAMBDA last :
                /\ last.done /\ FeedComplete(out.ps)
                /\ out.ps.apply_xlat256
                      <=> ~(argNext[out.i].magic = FLI_BLACK \/ FeedStampImage(argNext[out.i]))
                /\ FeedCalls(last.ops, "apply_pstamp_xlat256")
                      = IF out.ps.apply_xlat256 THEN 1 ELSE 0
                /\ out.ps.apply_xlat256 =>
                      /\ out.ps.xlat256 = IF out.ps.have_xlat256 THEN FeedTable
                                          ELSE make_pstamp_xlat256(last.pre.pal)
                      /\ out.ps.dst.buf = apply_pstamp_xlat256(out.ps.xlat256, last.pre)
                /\ ~out.ps.apply_xlat256 => out.ps.dst.buf = last.pre.buf
                /\ \A c \in 0..215 :
                      PalEntry(out.ps.dst.pal, c)
                          = <<((c \div 36) * 256) \div 6, (((c \div 6) % 6) * 256) \div 6,
                              ((c % 6) * 256) \div 6>>)

\* C23 witness: the table of an FPS_XLAT256 chunk, then a palette chunk
\* that is passed over, then the image, to which the table is applied
C23_Witness ==
    /\ pc = "feed_done"
    /\ out.i = 3
    /\ out.log[1].ops = <<"decode_fli_pstamp">>
    /\ argNext[2].magic = FLI_COLOR256 /\ out.log[2].ops = <<>>
    /\ out.log[3].ops = <<"decode_fps_brun", "apply_pstamp_xlat256", "make_pstamp_pal">>
    /\ out.ps.xlat256 = FeedTable
    /\ VisPixels(out.ps.dst) = <<<<14, 7>>, <<14, 7>>>>

(***************************************************************************)
(* Scenario SpecCube: make_pstamp_xlat256 and make_pstamp_pal on palettes  *)
(* in which one component of color c is c and the other two are fixed.     *)
(***************************************************************************)
\* the values of the fixed components
CubeMenu == {0, 41, 42, 43, 127, 128, 213, 255}

\* [k, a, b]: component k of color c is c, the others are a and b
CubeInputs == { [k |-> k, a |-> a, b |-> b] : k \in 0..2, a \in CubeMenu, b \in CubeMenu }

\* component k (1 red, 2 green, 3 blue) of color c of an input
CubeComp(p, c, k) ==
    IF k - 1 = p.k THEN c ELSE IF k - 1 = (p.k + 1) % 3 THEN p.a ELSE p.b

\* the palette of an input
CubePal(p) == [i \in 1..PAL_LEN |-> CubeComp(p, (i - 1) \div 3, ((i - 1) % 3) + 1)]

InitCube ==
    /\ pc = "cube_input"
    /\ argNext \in CubeInputs /\ argPrev = None
    /\ out = None
    /\ wr = None /\ wres = None /\ hist = <<>>
    /\ rd = None /\ dst = None /\ rres = None /\ calls = <<>>

\* make_pstamp_xlat256(&pal, &mut xlat256) and make_pstamp_pal(&mut dst)
CubeTable ==
    /\ pc = "cube_input"
    /\ out' = [xlat256 |-> make_pstamp_xlat256(CubePal(argNext)),
               pal |-> make_pstamp_pal(CubePal(argNext))]
    /\ pc' = "cube_made"
    /\ UNCHANGED <<wr, wres, hist, rd, dst, rres, calls, argPrev, argNext>>

NextCube == CubeTable

SpecCube == InitCube /\ [][NextCube]_vars

\* the levels of a six-cube index: <<red, green, blue>>
CubeLevels(idx) == <<idx \div 36, (idx \div 6) % 6, idx % 6>>

\* the component that make_pstamp_pal wrote for level v: the blue of color v
CubeValue(pal, v) == At(pal, 3 * v + 2)

\* the distance of two components
CubeDist(a, b) == IF a < b THEN b - a ELSE a - b

\* C24 as stated: every entry of the table is below 216 and each of its
\* levels is a level whose six-cube value is nearest to the component.
C24_NearestCube ==
    pc = "cube_made" =>
        \A c \in 0..255 :
            /\ At(out.xlat256, c) < 216
            /\ \A k \in 1..3 : \A v \in 0..5 :
                  CubeDist(CubeComp(argNext, c, k),
                           CubeValue(out.pal, CubeLevels(At(out.xlat256, c))[k]))
                      <= CubeDist(CubeComp(argNext, c, k), CubeValue(out.pal, v))

\* C24: every entry of the table is below 216 and each of its levels v is
\* the component times 6 over 256, rounded down: 256 v <= 6 c < 256 (v + 1);
\* the six-cube value of the level is at most the component and at most 43
\* below it.
C24_FloorCube ==
    pc = "cube_made" =>
        \A c \in 0..255 :
            /\ At(out.xlat256, c) < 216
            /\ \A k \in 1..3 :
                  Let(CubeComp(argNext, c, k), LAMBDA comp :
                  Let(CubeLevels(At(out.xlat256, c))[k], LAMBDA v :
                      /\ 256 * v <= 6 * comp /\ 6 * comp < 256 * (v + 1)
                      /\ CubeValue(out.pal, v) <= comp
                      /\ comp - CubeValue(out.pal, v) <= 43))

\* C24 witness: red 41 takes level 0, red 42 as well, red 43 level 1, and
\* white takes the last color of the cube
C24_Witness ==
    /\ pc = "cube_made"
    /\ argNext = [k |-> 0, a |-> 255, b |-> 255]
    /\ CubeLevels(At(out.xlat256, 41))[1] = 0
    /\ CubeLevels(At(out.xlat256, 42))[1] = 0
    /\ CubeLevels(At(out.xlat256, 43))[1] = 1
    /\ CubeValue(out.pal, 1) = 42
    /\ At(out.xlat256, 255) = 215

(***************************************************************************)
(* Scenario SpecPlay: read_next_frame on a file of one frame and a ring    *)
(* frame whose chunks are any of a menu, among them chunks that fail, read *)
(* into a raster of the size of the header and into one that is wider.     *)
(***************************************************************************)
\* the largest number of chunks in the first frame
PlayLen == 2

\* the largest number of read_next_frame calls
PlayCalls == 3

\* the caller's raster before the first call
PlayDst == ViewOf([g |-> "offset", rows |-> <<<<2, 2>>>>, margin |-> 2, pal |-> 1])

\* a raster one column wider
PlayWide == ViewOf([g |-> "offset", rows |-> <<<<2, 2, 2>>>>, margin |-> 2, pal |-> 1])

\* the chunks: two palettes, the identity palette, black, a copy, a postage
\* stamp, a palette cut short, a copy of a width that is not the raster's,
\* and a chunk type that does not exist
PlayMenu ==
    { [magic |-> FLI_COLOR256, buf |-> le16(1) \o <<0, 1, 9, 9, 9>>],
      [magic |-> FLI_COLOR64, buf |-> le16(1) \o <<1, 1, 9, 9, 9>>],
      [magic |-> FLI_ICOLORS, buf |-> <<>>],
      [magic |-> FLI_BLACK, buf |-> <<>>],
      [magic |-> FLI_COPY, buf |-> Fill(PlayDst.w * PlayDst.h, 1)],
      [magic |-> FLI_PSTAMP, buf |-> <<0, 0>>],
      [magic |-> FLI_COLOR256, buf |-> le16(1) \o <<0, 1, 9>>],
      [magic |-> FLI_COPY, buf |-> Fill(PlayDst.w * PlayDst.h + 1, 1)],
      [magic |-> 99, buf |-> <<>>] }

\* the ring frames
PlayRings ==
    { <<>>, <<[magic |-> FLI_ICOLORS, buf |-> <<>>]>>, <<[magic |-> 99, buf |-> <<>>]>> }

\* the files: the chunks of the first frame and of the ring frame
PlayInputs ==
    UNION { { <<cs, ring>> : cs \in [1..n -> PlayMenu], ring \in PlayRings } : n \in 0..PlayLen }

\* the bytes of the chunks cs from the i-th on
RECURSIVE PlayChunks(_, _)
PlayChunks(cs, i) ==
    IF i > Len(cs) THEN <<>>
    ELSE le32(SIZE_OF_CHUNK + Len(cs[i].buf)) \o le16(cs[i].magic) \o cs[i].buf
         \o PlayChunks(cs, i + 1)

\* the bytes of a frame
PlayFrame(cs) ==
    le32(SIZE_OF_FLIC_FRAME + Len(PlayChunks(cs, 1))) \o le16(FCID_FRAME) \o le16(Len(cs))
    \o Fill(8, 0) \o PlayChunks(cs, 1)

\* the bytes of the file: an FLC header with frame count 1, and the frames
PlayFile(inp) ==
    le32(SIZE_OF_FLIC_HEADER + Len(PlayFrame(inp[1])) + Len(PlayFrame(inp[2])))
    \o le16(FLIHR_MAGIC) \o le16(1) \o le16(PlayDst.w) \o le16(PlayDst.h)
    \o Fill(SIZE_OF_FLIC_HEADER - 12, 0) \o PlayFrame(inp[1]) \o PlayFrame(inp[2])

InitPlay ==
    /\ pc = "play_input"
    /\ argNext \in PlayInputs /\ argPrev = None
    /\ out = None
    /\ wr = None /\ wres = None /\ hist = <<>>
    /\ rd = None /\ dst = None /\ rres = None /\ calls = <<>>

\* FlicFile::open(filename), and the caller's raster is made
PlayOpen ==
    /\ pc = "play_input"
    /\ rd' = FlicFile_open(PlayFile(argNext))
    /\ dst' = PlayDst
    /\ pc' = "play_opened"
    /\ UNCHANGED <<wr, wres, hist, rres, calls, argPrev, argNext, out>>

\* the state a read_next_frame call on the raster d with result r leaves;
\* out holds the raster and the cursor before the call and the raster after it
PlayAfter(d, r) ==
    /\ rd' = [rd EXCEPT !.flic = r.flic]
    /\ rres' = [res |-> r.res, ended |-> r.ended, looped |-> r.looped,
                palette_updated |-> r.palette_updated, decoded |-> r.decoded]
    /\ calls' = Append(calls, [frame |-> rd.flic.frame, res |-> r.res])
    /\ out' = [before |-> d, after |-> r.dst, frame |-> rd.flic.frame]

\* flic.read_next_frame(&mut dst)
PlayRead ==
    /\ pc = "play_opened"
    /\ rd.res = "Ok"
    /\ Len(calls) < PlayCalls
    /\ Let(FlicFile_read_next_frame(rd.flic, dst), LAMBDA r :
            PlayAfter(dst, r) /\ dst' = r.dst)
    /\ UNCHANGED <<pc, wr, wres, hist, argPrev, argNext>>

\* flic.read_next_frame(&mut other), other being one column too wide
PlayReadWrongSize ==
    /\ pc = "play_opened"
    /\ rd.res = "Ok"
    /\ Len(calls) < PlayCalls
    /\ PlayAfter(PlayWide, FlicFile_read_next_frame(rd.flic, PlayWide))
    /\ UNCHANGED <<pc, dst, wr, wres, hist, argPrev, argNext>>

NextPlay == PlayOpen \/ PlayRead \/ PlayReadWrongSize

SpecPlay == InitPlay /\ [][NextPlay]_vars

\* the chunk types of the frame at the cursor k
PlayTypes(k) == {argNext[k + 1][i].magic : i \in 1..Len(argNext[k + 1])}

\* C25: a read_next_frame that returns Ok returns palette_updated exactly
\* when the frame it decoded has a chunk of type 4, 11 or 14.
C25_PaletteUpdated ==
    (pc = "play_opened" /\ rres # None /\ rres.res = "Ok") =>
        (rres.palette_updated <=> PlayTypes(out.frame) \cap {4, 11, 14} # {})

\* C25 witness: the ring frame with its one FLI_ICOLORS chunk reports true,
\* after a first frame of FLI_BLACK and FLI_PSTAMP that reported false
C25_Witness ==
    /\ pc = "play_opened"
    /\ PlayTypes(0) = {FLI_BLACK, FLI_PSTAMP} /\ PlayTypes(1) = {FLI_ICOLORS}
    /\ Len(calls) = 2 /\ calls[1].res = "Ok" /\ out.frame = 1
    /\ rres.res = "Ok" /\ rres.palette_updated
    /\ dst.pal = decode_fli_icolors(dst)

\* C28: a read_next_frame that returns an error leaves the cursor where it
\* was, and the next call is on the same frame; a call with a raster whose
\* width or height is not the header's returns WrongResolution, has
\* decoded no chunk and leaves the pixels and the palette as they were.
C28_ErrorKeepsCursor ==
    (pc = "play_opened" /\ rres # None) =>
        /\ rres.res # "Ok" => rd.flic.frame = out.frame
        /\ \A i \in 1..(Len(calls) - 1) :
              calls[i].res # "Ok" => calls[i + 1].frame = calls[i].frame
        /\ (out.before.w # rd.flic.hdr.w \/ out.before.h # rd.flic.hdr.h) =>
              /\ rres.res = "WrongResolution"
              /\ rres.decoded = 0
              /\ out.after = out.before
        /\ (rres.res = "WrongResolution" /\ rres.decoded = 0) =>
              (out.before.w # rd.flic.hdr.w \/ out.before.h # rd.flic.hdr.h)

\* C28 witness: the first frame decoded, then the ring frame fails on its
\* chunk and fails again on the next call, then a raster too wide is refused
C28_Witness ==
    /\ pc = "play_opened"
    /\ Len(calls) = 3
    /\ calls[1].res = "Ok" /\ calls[2] = [frame |-> 1, res |-> "BadMagic"]
    /\ calls[3] = [frame |-> 1, res |-> "WrongResolution"]
    /\ rd.flic.frame = 1
    /\ out.after = PlayWide

(***************************************************************************)
(* The frames of a run of Spec, chunk by chunk.                            *)
(***************************************************************************)
\* the chunks that lie back to back from off to end, as [magic, off, size],
\* with a last element of size 0 where the bytes are not such a sequence
RECURSIVE ChunksTo(_, _, _)
ChunksTo(buf, off, end) ==
    IF off = end THEN <<>>
    ELSE IF off + SIZE_OF_CHUNK > end \/ rd32(buf, off) < SIZE_OF_CHUNK
            \/ off + rd32(buf, off) > end
    THEN <<[magic |-> 0, off |-> off, size |-> 0]>>
    ELSE <<[magic |-> rd16(buf, off + 4), off |-> off, size |-> rd32(buf, off)]>>
            \o ChunksTo(buf, off + rd32(buf, off), end)

\* the sum of the sizes of chunks
RECURSIVE ChunkSizes(_)
ChunkSizes(cs) == IF cs = <<>> THEN 0 ELSE Head(cs).size + ChunkSizes(Tail(cs))

\* the place of a chunk type in a frame: the postage stamp, the palette,
\* the pixels; 0 for any other type
ChunkRank(magic) ==
    CASE magic = FLI_PSTAMP -> 1
      [] magic \in {FLI_COLOR256, FLI_COLOR64} -> 2
      [] magic \in {FLI_BLACK, FLI_LC, FLI_SS2, FLI_BRUN, FLI_COPY} -> 3
      [] OTHER -> 0

PairW == 6
PairLongW == 600

\* the long rows, all against a previous row of zeros
PairLong ==
    { [c \in 1..PairLongW |-> IF c \in {1, 2, PairLongW - 1, PairLongW} THEN 1 ELSE 0],
      [c \in 1..PairLongW |-> 1],
      [c \in 1..PairLongW |-> IF c = PairLongW THEN 1 ELSE 0],
      [c \in 1..PairLongW |-> IF c <= 3 \/ c = PairLongW THEN c % 2 ELSE 0] }

\* the pairs <<old row, new row>>
PairInputs ==
    UNION { [1..w -> {0, 1}] \X [1..w -> {0, 1}] : w \in 1..PairW }
    \cup { <<[c \in 1..PairLongW |-> 0], n>> : n \in PairLong }

\* a raster of one row
PairRaster(row) == Raster_new(Len(row), 1, row, PalOf(0))

InitPair ==
    /\ pc = "pair_input"
    /\ \E inp \in PairInputs : argPrev = inp[1] /\ argNext = inp[2]
    /\ out = None
    /\ wr = None /\ wres = None /\ hist = <<>>
    /\ rd = None /\ dst = None /\ rres = None /\ calls = <<>>

\* the body of the row loop for a changed row: the groups, then the bytes
PairRow ==
    /\ pc = "pair_input"
    /\ argPrev # argNext
    /\ out' = [gs |-> ss2_row_groups(argPrev, argNext,
                          [GroupByRuns_new(FALSE) EXCEPT !.prepend_same_run = TRUE,
                                                         !.ignore_final_same_run = TRUE],
                          Op("Skip", 0, 0), <<>>),
               row |-> ss2_encode_row(argPrev, argNext)]
    /\ pc' = "pair_row"
    /\ UNCHANGED <<wr, wres, hist, rd, dst, rres, calls, argPrev, argNext>>

\* encode_fli_ss2(prev, next, w) on rasters of one row
PairChunk ==
    /\ pc = "pair_row" \/ (pc = "pair_input" /\ argPrev = argNext)
    /\ out' = [gs |-> IF pc = "pair_row" THEN out.gs ELSE None,
               row |-> IF pc = "pair_row" THEN out.row ELSE None,
               enc |-> encode_fli_ss2(PairRaster(argPrev), PairRaster(argNext))]
    /\ pc' = "pair_chunk"
    /\ UNCHANGED <<wr, wres, hist, rd, dst, rres, calls, argPrev, argNext>>

NextPair == PairRow \/ PairChunk

SpecPair == InitPair /\ [][NextPair]_vars

\* the states a row went through: the queued packets and the last state
PairOps == { out.gs.packets[i] : i \in 1..Len(out.gs.packets) } \cup {out.gs.state}

\* C29: SS2 encoder assertions.  For every pair of rows of equal width the
\* row loop of encode_fli_ss2 fires none of its assertions: no group arrives
\* in state SetEnd, every Memset and Memcpy has an even length and lies
\* within the row also after an odd Memcpy was rounded up, SetEnd arises
\* once at most and only for the last byte of the row, the row's count of
\* half packets is even, and the chunk has an even length.
C29_NoAssertion ==
    /\ (pc = "pair_row" \/ (pc = "pair_chunk" /\ argPrev # argNext)) =>
           /\ ~out.gs.panic
           /\ out.row.res # "Panic"
           /\ \A op \in PairOps :
                  op.op \in {"Memset", "Memcpy"} =>
                      /\ op.len % 2 = 0 /\ op.len >= 2
                      /\ op.idx + op.len <= Len(argNext)
           /\ \A i \in 1..Len(out.gs.packets) : out.gs.packets[i].op # "SetEnd"
           /\ out.gs.state.op = "SetEnd" =>
                  /\ out.gs.state.idx = Len(argNext) - 1
                  /\ argPrev[Len(argNext)] # argNext[Len(argNext)]
           /\ out.row.res = "Ok" => Len(out.row.bytes) % 2 = 0
    /\ pc = "pair_chunk" =>
           /\ out.enc.res \in {"Ok", "ExceededLimit"}
           /\ out.enc.res = "Ok" => out.enc.size % 2 = 0 /\ Len(out.enc.bytes) = out.enc.size

\* C29 witness: in a row of odd width a Memset of one word and a single
\* unchanged byte merged into a Memcpy of three bytes that was rounded up to
\* four, and the changed last byte became the SetEnd
C29_Witness ==
    /\ pc = "pair_chunk"
    /\ argPrev = <<0, 0, 0, 0, 0>> /\ argNext = <<1, 1, 0, 1, 1>>
    /\ out.gs.packets = <<Op("Skip", 0, 0), Op("Memcpy", 0, 4)>>
    /\ out.gs.state = Op("SetEnd", 4, 1)
    /\ out.row = [res |-> "Ok", bytes |-> <<1, 128, 1, 0, 0, 2, 1, 1, 0, 1>>]
    /\ out.enc.res = "ExceededLimit"

(***************************************************************************)
(* Scenario SpecCount: a writer is driven until write_next_frame refuses.  *)
(* The file of 65535 frames is not kept: the writer is its frame counter,  *)
(* close leaves the header's frame count field, and the reader takes from  *)
(* it the number of frame headers it walks.  A call passes a raster of the *)
(* header's size or not, and the inner write_next_frame succeeds or fails. *)
(***************************************************************************)
InitCount ==
    /\ pc = "counting"
    /\ wr = [open |-> TRUE, frame_count |-> 0]
    /\ wres = None
    /\ calls = [ok |-> 0, refused |-> FALSE]
    /\ hist = <<>> /\ rd = None /\ dst = None /\ rres = None
    /\ argPrev = None /\ argNext = None /\ out = None

\* flic.write_next_frame(prev, next)
CountWrite ==
    /\ pc = "counting"
    /\ \E sized \in BOOLEAN, inner \in {"Ok", "Io"} :
          Let(writer_frame_count(wr.open, wr.frame_count, sized, inner), LAMBDA r :
              /\ wr' = [wr EXCEPT !.frame_count = r.frame_count]
              /\ wres' = [res |-> r.res, wrote |-> r.wrote, before |-> wr.frame_count,
                          sized |-> sized]
              /\ calls' = [ok |-> IF r.res = "Ok" THEN calls.ok + 1 ELSE calls.ok,
                           refused |-> calls.refused \/ r.res = "ExceededLimit"])
    /\ UNCHANGED <<pc, hist, rd, dst, rres, argPrev, argNext, out>>

\* flic.close(): out is the frame count field of the header written
CountClose ==
    /\ pc = "counting"
    /\ IF wr.frame_count = 0
       THEN wres' = [res |-> "Corrupted"] /\ out' = out
       ELSE wres' = [res |-> "Ok"] /\ out' = le16(close_frame_count(wr.frame_count))
    /\ wr' = [wr EXCEPT !.open = FALSE]
    /\ pc' = "count_closed"
    /\ UNCHANGED <<hist, rd, dst, rres, calls, argPrev, argNext>>

\* FlicFile::open: the frame count read, and `hdr.frame_count + 1` computed
\* in 16 bits, which panics or wraps when it overflows
CountOpen ==
    /\ pc = "count_closed"
    /\ wres.res = "Ok"
    /\ Let(rd16(out, 0), LAMBDA frame_count :
           IF frame_count = 0 THEN rd' = [res |-> "Corrupted"]
           ELSE IF frame_count + 1 > U16_MAX
           THEN \E o \in {"Panic", "Wrapped"} :
                   rd' = [res |-> o, frame_count |-> frame_count, headers |-> 0]
           ELSE rd' = [res |-> "Ok", frame_count |-> frame_count,
                       headers |-> frame_count + 1])
    /\ pc' = "count_opened"
    /\ UNCHANGED <<wr, wres, hist, dst, rres, calls, argPrev, argNext, out>>

NextCount == CountWrite \/ CountClose \/ CountOpen

SpecCount == InitCount /\ [][NextCount]_vars

\* on the runs of Spec, where the file is kept, the frame counter of
\* SpecCount gives the result and the count of FlicFileWriter::write_next_frame
CountAgrees ==
    (pc = "writing" /\ hist # <<>>) =>
        Let(ViewOf(LastCall.next), LAMBDA next :
        Let(writer_frame_count(TRUE, LastCall.fc,
                               next.w = wr.hdr.w /\ next.h = wr.hdr.h, LastCall.res),
            LAMBDA r :
            /\ r.res = LastCall.res
            /\ r.frame_count = wr.hdr.frame_count
            /\ r.wrote = (LastCall.pos1 # LastCall.pos0)))

\* the last thing done was a write_next_frame call at the count 65535
CountAtLimit == pc = "counting" /\ wres # None /\ wres.before = U16_MAX

\* C30 as stated: every call made when the count is 65535 returns
\* ExceededLimit
C30_LimitAlways == CountAtLimit => wres.res = "ExceededLimit"

\* C30: writer frame counter bounds.  frame_count equals the number of
\* write_next_frame calls that returned Ok and never passes 65535; a call
\* made at the count 65535 neither writes nor increments, and it returns
\* ExceededLimit when the raster has the header's size and WrongResolution
\* when it has not; the frame count close writes is between 1 and 65534, and
\* the reader's 16-bit frame_count + 1 does not overflow.
C30_FrameCounter ==
    /\ wr.frame_count = calls.ok
    /\ wr.frame_count <= U16_MAX
    /\ calls.refused => wr.frame_count = U16_MAX
    /\ CountAtLimit =>
           /\ wres.res = (IF wres.sized THEN "ExceededLimit" ELSE "WrongResolution")
           /\ ~wres.wrote
           /\ wr.frame_count = U16_MAX
    /\ (pc = "counting" /\ wres # None) =>
           wr.frame_count = (IF wres.res = "Ok" THEN wres.before + 1 ELSE wres.before)
    /\ (pc \in {"count_closed", "count_opened"} /\ wres.res = "Ok") =>
           /\ rd16(out, 0) >= 1 /\ rd16(out, 0) <= U16_MAX - 1
           /\ rd16(out, 0) = (IF calls.ok = 1 THEN 1 ELSE calls.ok - 1)
    /\ pc = "count_opened" =>
           /\ rd.res = "Ok"
           /\ rd.headers = rd.frame_count + 1
           /\ rd.headers <= U16_MAX

\* C30 witness: after 65535 frames a call with a raster of the right size
\* was refused, close wrote 65534, and the reader walks 65535 frame headers
C30_Witness ==
    /\ pc = "count_opened"
    /\ calls = [ok |-> U16_MAX, refused |-> TRUE]
    /\ out = <<254, 255>>
    /\ rd = [res |-> "Ok", frame_count |-> U16_MAX - 1, headers |-> U16_MAX]

====
